---- MODULE Spec2Model ----
(***************************************************************************)
(* receipt-index: the IMAP source adapter (adapters/imap.py), the local    *)
(* file store (store.py), the PDF renderer (renderer.py), the metadata     *)
(* model (models.py) and the prompt builder (extraction.py).               *)
(*                                                                         *)
(* Strings are sequences of one-character strings, so that strip, slugify, *)
(* zero padding and path formatting are computed and not assumed.          *)
(***************************************************************************)
EXTENDS Integers, Sequences, FiniteSets, TLC

\* ------------------------------------------------------------------ bounds
MaxMsgs == 3

\* ---------------------------------------------------------------- helpers
None == <<"None">>

RECURSIVE LStrip(_)
LStrip(s) == IF s # <<>> /\ Head(s) = " " THEN LStrip(Tail(s)) ELSE s

RECURSIVE RStrip(_)
RStrip(s) ==
    IF s # <<>> /\ s[Len(s)] = " " THEN RStrip(SubSeq(s, 1, Len(s) - 1)) ELSE s

\* str.strip()
Strip(s) == RStrip(LStrip(s))

\* msg.get(name, "") : an absent header reads as the empty string
GetOrEmpty(h) == IF h = None THEN <<>> ELSE h

\* hashlib.sha256(key.encode()).hexdigest(): the digest is written as the
\* marker "#" followed by the hashed text, an injective encoding of the key
Sha256(key) == <<"#">> \o key

\* email.header.Header object: what Message.get returns for a header whose
\* raw bytes are not ASCII; it is truthy and has no strip method
HeaderObj == <<"HeaderObj">>

\* ---------------------------------------------------------------- adapter
VARIABLES
    mailbox,        \* the folder: one entry per sequence number
    processed_ids,  \* the set handed to fetch_unprocessed
    pc,             \* position of the generator
    conn,           \* fetch_unprocessed's local `conn` is not None
    sockOpen,       \* IMAP4_SSL(host, port) has opened a connection
    msg_ids,        \* the list returned by _fetch_message_ids
    idx,            \* position of the for loop in msg_ids
    yielded,        \* the receipts handed to the consumer, in order
    exc,            \* the exception in flight / delivered to the caller
    cmds,           \* the IMAP commands issued, in order
    log,            \* the logger calls, in order
    \* LocalFileStore
    files,          \* the regular files below (or, resolved, outside) the root
    dirs,           \* the directories that exist below the root
    saves,          \* the save calls made so far, with what each returned
    failed,         \* the save calls that raised, with the path each aimed at
    \* render_pdf
    raw,            \* the RawReceipt handed to render_pdf
    rpc,            \* "ready", "returned" or "raised"
    result,         \* the bytes render_pdf returned
    engineInput,    \* the HTML handed to weasyprint, if any
    \* the module-level functions, called on their own
    arg,            \* the argument of the function
    rets            \* what each call so far returned, in order

adapterVars ==
    <<mailbox, processed_ids, pc, conn, sockOpen, msg_ids, idx, yielded,
      exc, cmds, log>>

storeVars == <<files, dirs, saves, failed>>

renderVars == <<raw, rpc, result, engineInput>>

pureVars == <<arg, rets>>

vars == <<adapterVars, storeVars, renderVars, pureVars>>

\* Date header strings parsedate_to_datetime accepts
ValidDates == {<<"d">>}

\* The messages a folder may hold.  resp is what conn.fetch returns for the
\* sequence number: "data" a list that starts with a (header, bytes) tuple,
\* "none" [None], "empty" the empty list, "bytes" a list that starts with a
\* bytes object.
MsgA  == [resp |-> "data", mid |-> <<"a">>, subject |-> <<"s">>,
          date |-> <<"d">>, sender |-> <<"f">>, charsetOk |-> TRUE]
MsgA2 == [resp |-> "data", mid |-> <<" ", "a">>, subject |-> <<"t">>,
          date |-> <<"d">>, sender |-> <<"f">>, charsetOk |-> TRUE]
MsgB  == [resp |-> "data", mid |-> <<"b">>, subject |-> <<"s">>,
          date |-> <<"x">>, sender |-> <<"f">>, charsetOk |-> TRUE]
MsgC  == [resp |-> "data", mid |-> None, subject |-> <<"s">>,
          date |-> None, sender |-> <<"f">>, charsetOk |-> TRUE]
MsgD  == [resp |-> "data", mid |-> <<"c">>, subject |-> <<"s">>,
          date |-> <<"d">>, sender |-> <<"f">>, charsetOk |-> FALSE]
MsgH  == [resp |-> "data", mid |-> HeaderObj, subject |-> <<"s">>,
          date |-> <<"d">>, sender |-> <<"f">>, charsetOk |-> TRUE]
MsgN  == [resp |-> "none", mid |-> <<"a">>, subject |-> <<"s">>,
          date |-> <<"d">>, sender |-> <<"f">>, charsetOk |-> TRUE]

MsgE  == [resp |-> "empty", mid |-> <<"a">>, subject |-> <<"s">>,
          date |-> <<"d">>, sender |-> <<"f">>, charsetOk |-> TRUE]
MsgT  == [resp |-> "bytes", mid |-> <<"a">>, subject |-> <<"s">>,
          date |-> <<"d">>, sender |-> <<"f">>, charsetOk |-> TRUE]

\* two messages without Message-ID whose subject and sender differ
MsgP1 == [resp |-> "data", mid |-> None, subject |-> <<"s", "|">>,
          date |-> None, sender |-> <<"f">>, charsetOk |-> TRUE]
MsgP2 == [resp |-> "data", mid |-> None, subject |-> <<"s">>,
          date |-> None, sender |-> <<"|", "f">>, charsetOk |-> TRUE]

Messages == {MsgA, MsgA2, MsgB, MsgC, MsgD, MsgH, MsgN, MsgP1, MsgP2}

FetchMessageReturnsNoneUnlessTuple(m) == m.resp = "empty" \/ m.resp = "none"

\* _fetch_message returns None: `not data or data[0] is None`, or data[0]
\* is not a tuple
FetchMessageReturnsNone(m) ==
    IF m.resp = "empty" \/ m.resp = "none" THEN TRUE
    ELSE IF m.resp = "data" THEN FALSE
    ELSE TRUE

\* _get_message_id raises: a Header object has no attribute strip
GetMessageIdRaises(m) == m.mid = HeaderObj

\* _get_message_id
GetMessageId(m) ==
    IF m.mid # None /\ m.mid # <<>>
    THEN Strip(m.mid)
    ELSE Sha256(GetOrEmpty(m.subject) \o <<"|">> \o GetOrEmpty(m.date)
                \o <<"|">> \o GetOrEmpty(m.sender))

\* _parse_message raises: parsedate_to_datetime on a Date it cannot parse,
\* bytes.decode on a charset Python does not know
ParseMessageRaises(m) ==
    \/ (m.date # None /\ m.date # <<>> /\ m.date \notin ValidDates)
    \/ ~m.charsetOk

\* _parse_message
ParseMessage(m, source_id, seqno) ==
    [seq       |-> seqno,
     source_id |-> source_id,
     subject   |-> GetOrEmpty(m.subject),
     sender    |-> GetOrEmpty(m.sender),
     date      |-> IF m.date = None \/ m.date = <<>> THEN <<"now">> ELSE m.date]

\* the identities a caller may have recorded
KnownIds == {<<"a">>, <<"c">>, GetMessageId(MsgC), GetMessageId(MsgP1)}

IsProcessedNever(source_id, ids) == FALSE

IsProcessedInverted(source_id, ids) == source_id \notin ids

IsProcessedOrYielded(source_id, ids) ==
    source_id \in ids \/ \E k \in DOMAIN yielded : yielded[k].source_id = source_id

\* `if source_id in processed_ids`
IsProcessed(source_id, ids) == source_id \in ids

ShouldLogoutOnSuccessOnly(c, e) == c /\ e = "none"

\* `finally: if conn is not None`
ShouldLogout(c, e) == c

RECURSIVE SeqsUpTo(_, _)
SeqsUpTo(S, n) ==
    IF n = 0 THEN {<<>>}
    ELSE LET shorter == SeqsUpTo(S, n - 1)
         IN  shorter \cup {Append(s, x) : s \in shorter, x \in S}

AdapterInit ==
    /\ mailbox \in SeqsUpTo(Messages, MaxMsgs)
    /\ processed_ids \in SUBSET KnownIds
    /\ pc = "created"
    /\ conn = FALSE
    /\ sockOpen = FALSE
    /\ msg_ids = <<>>
    /\ idx = 0
    /\ yielded = <<>>
    /\ exc = "none"
    /\ cmds = <<>>
    /\ log = <<>>

\* IMAP4_SSL(host, port) raises: nothing was opened
ConnectFails ==
    /\ pc = "created"
    /\ cmds' = Append(cmds, "connect")
    /\ exc' = "ConnectError"
    /\ pc' = "finally"
    /\ UNCHANGED <<mailbox, processed_ids, conn, sockOpen, msg_ids, idx,
                   yielded, log,
                   storeVars, renderVars, pureVars>>

\* conn.login raises inside _connect: the connection is open, but
\* fetch_unprocessed's `conn` was never assigned
LoginFails ==
    /\ pc = "created"
    /\ cmds' = cmds \o <<"connect", "login">>
    /\ sockOpen' = TRUE
    /\ exc' = "LoginError"
    /\ pc' = "finally"
    /\ UNCHANGED <<mailbox, processed_ids, conn, msg_ids, idx, yielded, log,
                   storeVars, renderVars, pureVars>>

\* conn = self._connect()
Connect ==
    /\ pc = "created"
    /\ cmds' = cmds \o <<"connect", "login">>
    /\ sockOpen' = TRUE
    /\ conn' = TRUE
    /\ pc' = "list"
    /\ UNCHANGED <<mailbox, processed_ids, msg_ids, idx, yielded, exc, log,
                   storeVars, renderVars, pureVars>>

SelectReadWrite == "select(folder)"

\* conn.select(self.config.folder, readonly=True)
SelectReadonly == "select(folder, readonly=True)"

\* conn.select raises
SelectFails ==
    /\ pc = "list"
    /\ cmds' = Append(cmds, SelectReadonly)
    /\ exc' = "SelectError"
    /\ pc' = "finally"
    /\ UNCHANGED <<mailbox, processed_ids, conn, sockOpen, msg_ids, idx,
                   yielded, log,
                   storeVars, renderVars, pureVars>>

\* conn.search raises
SearchFails ==
    /\ pc = "list"
    /\ cmds' = cmds \o <<SelectReadonly, "search">>
    /\ exc' = "SearchError"
    /\ pc' = "finally"
    /\ UNCHANGED <<mailbox, processed_ids, conn, sockOpen, msg_ids, idx,
                   yielded, log,
                   storeVars, renderVars, pureVars>>

\* msg_ids = self._fetch_message_ids(conn)
FetchMessageIds ==
    /\ pc = "list"
    /\ cmds' = cmds \o <<SelectReadonly, "search">>
    /\ msg_ids' = [i \in 1..Len(mailbox) |-> i]
    /\ idx' = 1
    /\ pc' = "loop"
    /\ UNCHANGED <<mailbox, processed_ids, conn, sockOpen, yielded, exc, log,
                   storeVars, renderVars, pureVars>>

InLoop == pc = "loop" /\ idx <= Len(msg_ids)

CurrentSeqReversed == msg_ids[Len(msg_ids) + 1 - idx]

\* `for msg_id in msg_ids`
CurrentSeq == msg_ids[idx]

Current == mailbox[CurrentSeq]

\* conn.fetch raises
FetchFails ==
    /\ InLoop
    /\ cmds' = Append(cmds, "fetch")
    /\ exc' = "FetchError"
    /\ pc' = "finally"
    /\ UNCHANGED <<mailbox, processed_ids, conn, sockOpen, msg_ids, idx,
                   yielded, log,
                   storeVars, renderVars, pureVars>>

\* raw_email is None: continue
FetchNoData ==
    /\ InLoop
    /\ FetchMessageReturnsNone(Current)
    /\ cmds' = Append(cmds, "fetch")
    /\ idx' = idx + 1
    /\ UNCHANGED <<mailbox, processed_ids, pc, conn, sockOpen, msg_ids,
                   yielded, exc, log,
                   storeVars, renderVars, pureVars>>

\* self._get_message_id(msg) raises, outside the inner try
IdentityRaises ==
    /\ InLoop
    /\ ~FetchMessageReturnsNone(Current)
    /\ GetMessageIdRaises(Current)
    /\ cmds' = Append(cmds, "fetch")
    /\ exc' = "AttributeError"
    /\ pc' = "finally"
    /\ UNCHANGED <<mailbox, processed_ids, conn, sockOpen, msg_ids, idx,
                   yielded, log,
                   storeVars, renderVars, pureVars>>

\* source_id in processed_ids: continue
SkipProcessed ==
    /\ InLoop
    /\ ~FetchMessageReturnsNone(Current)
    /\ ~GetMessageIdRaises(Current)
    /\ IsProcessed(GetMessageId(Current), processed_ids)
    /\ cmds' = Append(cmds, "fetch")
    /\ log' = Append(log, <<"skip", CurrentSeq>>)
    /\ idx' = idx + 1
    /\ UNCHANGED <<mailbox, processed_ids, pc, conn, sockOpen, msg_ids,
                   yielded, exc,
                   storeVars, renderVars, pureVars>>

\* self._parse_message raises: except Exception, logger.warning, next message
ParseFails ==
    /\ InLoop
    /\ ~FetchMessageReturnsNone(Current)
    /\ ~GetMessageIdRaises(Current)
    /\ ~IsProcessed(GetMessageId(Current), processed_ids)
    /\ ParseMessageRaises(Current)
    /\ cmds' = Append(cmds, "fetch")
    /\ log' = Append(log, <<"parsefail", CurrentSeq>>)
    /\ idx' = idx + 1
    /\ UNCHANGED <<mailbox, processed_ids, pc, conn, sockOpen, msg_ids,
                   yielded, exc,
                   storeVars, renderVars, pureVars>>

YieldRecording ==
    /\ InLoop
    /\ ~FetchMessageReturnsNone(Current)
    /\ ~GetMessageIdRaises(Current)
    /\ ~IsProcessed(GetMessageId(Current), processed_ids)
    /\ ~ParseMessageRaises(Current)
    /\ cmds' = Append(cmds, "fetch")
    /\ yielded' = Append(yielded,
                         ParseMessage(Current, GetMessageId(Current),
                                      CurrentSeq))
    /\ processed_ids' = processed_ids \cup {GetMessageId(Current)}
    /\ pc' = "suspended"
    /\ UNCHANGED <<mailbox, conn, sockOpen, msg_ids, idx,
                   exc, log,
                   storeVars, renderVars, pureVars>>

\* yield receipt: the generator is suspended at the yield
Yield ==
    /\ InLoop
    /\ ~FetchMessageReturnsNone(Current)
    /\ ~GetMessageIdRaises(Current)
    /\ ~IsProcessed(GetMessageId(Current), processed_ids)
    /\ ~ParseMessageRaises(Current)
    /\ cmds' = Append(cmds, "fetch")
    /\ yielded' = Append(yielded,
                         ParseMessage(Current, GetMessageId(Current),
                                      CurrentSeq))
    /\ pc' = "suspended"
    /\ UNCHANGED <<mailbox, processed_ids, conn, sockOpen, msg_ids, idx,
                   exc, log,
                   storeVars, renderVars, pureVars>>

\* the consumer asks for the next receipt
Resume ==
    /\ pc = "suspended"
    /\ idx' = idx + 1
    /\ pc' = "loop"
    /\ UNCHANGED <<mailbox, processed_ids, conn, sockOpen, msg_ids, yielded,
                   exc, cmds, log,
                   storeVars, renderVars, pureVars>>

CloseWithoutFinally ==
    /\ pc = "suspended"
    /\ exc' = "GeneratorExit"
    /\ pc' = "closed"
    /\ UNCHANGED <<mailbox, processed_ids, conn, sockOpen, msg_ids, idx,
                   yielded, cmds, log,
                   storeVars, renderVars, pureVars>>

\* the consumer closes the generator: GeneratorExit is raised at the yield,
\* `except Exception` does not catch it
Close ==
    /\ pc = "suspended"
    /\ exc' = "GeneratorExit"
    /\ pc' = "finally"
    /\ UNCHANGED <<mailbox, processed_ids, conn, sockOpen, msg_ids, idx,
                   yielded, cmds, log,
                   storeVars, renderVars, pureVars>>

\* the for loop is exhausted
LoopEnd ==
    /\ pc = "loop"
    /\ idx > Len(msg_ids)
    /\ pc' = "finally"
    /\ UNCHANGED <<mailbox, processed_ids, conn, sockOpen, msg_ids, idx,
                   yielded, exc, cmds, log,
                   storeVars, renderVars, pureVars>>

\* where the generator ends once the finally block is done
AfterFinally ==
    IF exc = "none" THEN "done"
    ELSE IF exc = "GeneratorExit" THEN "closed" ELSE "raised"

\* the finally block; conn.logout() returns, or conn is None
Finally ==
    /\ pc = "finally"
    /\ cmds' = IF ShouldLogout(conn, exc) THEN Append(cmds, "logout") ELSE cmds
    /\ pc' = AfterFinally
    /\ UNCHANGED <<mailbox, processed_ids, conn, sockOpen, msg_ids, idx,
                   yielded, exc, log,
                   storeVars, renderVars, pureVars>>

FinallyLogoutPropagates ==
    /\ pc = "finally"
    /\ ShouldLogout(conn, exc)
    /\ cmds' = Append(cmds, "logout")
    /\ log' = Append(log, <<"logouterr", 0>>)
    /\ exc' = "LogoutError"
    /\ pc' = "raised"
    /\ UNCHANGED <<mailbox, processed_ids, conn, sockOpen, msg_ids, idx,
                   yielded,
                   storeVars, renderVars, pureVars>>

\* the finally block; conn.logout() raises: except Exception, logger.debug
FinallyLogoutRaises ==
    /\ pc = "finally"
    /\ ShouldLogout(conn, exc)
    /\ cmds' = Append(cmds, "logout")
    /\ log' = Append(log, <<"logouterr", 0>>)
    /\ pc' = AfterFinally
    /\ UNCHANGED <<mailbox, processed_ids, conn, sockOpen, msg_ids, idx,
                   yielded, exc,
                   storeVars, renderVars, pureVars>>

AdapterNext ==
    \/ ConnectFails \/ LoginFails \/ Connect
    \/ SelectFails \/ SearchFails \/ FetchMessageIds
    \/ FetchFails \/ FetchNoData \/ IdentityRaises \/ SkipProcessed
    \/ ParseFails \/ Yield \/ Resume \/ Close \/ LoopEnd
    \/ Finally \/ FinallyLogoutRaises

\* ------------------------------------------------------------------ store

Digit == <<"0", "1", "2", "3", "4", "5", "6", "7", "8", "9">>

\* str(n) for a natural number
RECURSIVE Str(_)
Str(n) == IF n < 10 THEN <<Digit[n + 1]>>
          ELSE Str(n \div 10) \o <<Digit[(n % 10) + 1]>>

\* zero padding of the format specs :02d and %04d
RECURSIVE ZeroPad(_, _)
ZeroPad(s, w) == IF Len(s) >= w THEN s ELSE ZeroPad(<<"0">> \o s, w)

\* date.isoformat()
IsoFormat(d) ==
    ZeroPad(Str(d.year), 4) \o <<"-">> \o ZeroPad(Str(d.month), 2)
    \o <<"-">> \o ZeroPad(Str(d.day), 2)

RECURSIVE Zeros(_)
Zeros(n) == IF n <= 0 THEN <<>> ELSE <<"0">> \o Zeros(n - 1)

\* str(Decimal) of a non-negative decimal with coefficient digits a.digits
\* and exponent a.exp <= 0 (the plain, non-scientific notation)
DecimalStr(a) ==
    LET dotplace == Len(a.digits) + a.exp
    IN  IF a.exp = 0 THEN a.digits
        ELSE IF dotplace <= 0
             THEN <<"0", ".">> \o Zeros(-dotplace) \o a.digits
             ELSE SubSeq(a.digits, 1, dotplace) \o <<".">>
                  \o SubSeq(a.digits, dotplace + 1, Len(a.digits))

UpperAlpha == <<"A", "B", "C", "D", "E", "F", "G", "H", "I", "J", "K", "L", "M",
                "N", "O", "P", "Q", "R", "S", "T", "U", "V", "W", "X", "Y", "Z">>
LowerAlpha == <<"a", "b", "c", "d", "e", "f", "g", "h", "i", "j", "k", "l", "m",
                "n", "o", "p", "q", "r", "s", "t", "u", "v", "w", "x", "y", "z">>

Range(f) == {f[i] : i \in DOMAIN f}

LowerOf ==
    [c \in Range(UpperAlpha) |->
        LowerAlpha[CHOOSE i \in DOMAIN UpperAlpha : UpperAlpha[i] = c]]

\* str.lower() of one ASCII character
Lower(c) == IF c \in DOMAIN LowerOf THEN LowerOf[c] ELSE c

\* the characters python-slugify keeps: its pattern [^-a-z0-9]+ names the rest
SlugAllowed == Range(LowerAlpha) \cup Range(Digit) \cup {"-"}

\* lowercase, then every disallowed character becomes the separator
SlugMap(s) ==
    [i \in DOMAIN s |-> IF Lower(s[i]) \in SlugAllowed THEN Lower(s[i]) ELSE "-"]

\* -{2,} becomes a single separator: a separator that follows one is dropped
CollapseDashes(s) ==
    LET marked == [i \in DOMAIN s |->
                      <<s[i], i > 1 /\ s[i] = "-" /\ s[i - 1] = "-">>]
        kept   == SelectSeq(marked, LAMBDA p : ~p[2])
    IN  [i \in DOMAIN kept |-> kept[i][1]]

\* str.strip("-")
StripDash(s) ==
    LET solid == {i \in DOMAIN s : s[i] # "-"}
    IN  IF solid = {} THEN <<>>
        ELSE SubSeq(s, CHOOSE i \in solid : \A j \in solid : i <= j,
                       CHOOSE i \in solid : \A j \in solid : j <= i)

\* smart_truncate without word boundary: string[:max_length].strip("-")
Truncate(s, n) == StripDash(SubSeq(s, 1, IF Len(s) < n THEN Len(s) ELSE n))

SlugMaxLength == 50

SlugifyVendorRaw(vendor) == vendor

\* _slugify_vendor: slugify(vendor, max_length=50) on ASCII text
SlugifyVendor(vendor) ==
    Truncate(StripDash(CollapseDashes(SlugMap(vendor))), SlugMaxLength)

\* str.split("/") of a path: segment k lies between the (k-1)-th and the
\* k-th separator
Split(s) ==
    LET slashes == {i \in DOMAIN s : s[i] = "/"}
        cut(k)  == IF k = 0 THEN 0
                   ELSE IF k > Cardinality(slashes) THEN Len(s) + 1
                   ELSE CHOOSE p \in slashes :
                            Cardinality({q \in slashes : q < p}) = k - 1
    IN  [k \in 1..(Cardinality(slashes) + 1) |->
            SubSeq(s, cut(k - 1) + 1, cut(k) - 1)]

DotDot == <<".", ".">>

\* the location, relative to the root, a path names once the file system has
\* resolved it: empty and "." segments vanish, ".." steps to the parent; a
\* leading ".." is left in place and marks a location outside the root
RECURSIVE ResolveFrom(_, _)
ResolveFrom(done, segs) ==
    IF segs = <<>> THEN done
    ELSE LET h == Head(segs)
         IN  IF h = <<>> \/ h = <<".">> THEN ResolveFrom(done, Tail(segs))
             ELSE IF h = DotDot /\ done # <<>> /\ done[Len(done)] # DotDot
                  THEN ResolveFrom(SubSeq(done, 1, Len(done) - 1), Tail(segs))
                  ELSE ResolveFrom(Append(done, h), Tail(segs))

Resolve(path) == ResolveFrom(<<>>, Split(path))

InsideRoot(loc) == loc = <<>> \/ loc[1] # DotDot

FilenameSuffixFromOne(iso, slug, amount, counter) ==
    iso \o <<"_", "_">> \o slug \o <<"_", "_">> \o amount
    \o (IF counter = 1 THEN <<>> ELSE <<"_">> \o Str(counter - 1))
    \o <<".", "p", "d", "f">>

\* f"{iso}__{slug}__{amount}.pdf" and f"{iso}__{slug}__{amount}_{counter}.pdf"
Filename(iso, slug, amount, counter) ==
    iso \o <<"_", "_">> \o slug \o <<"_", "_">> \o amount
    \o (IF counter = 1 THEN <<>> ELSE <<"_">> \o Str(counter))
    \o <<".", "p", "d", "f">>

\* self.root / str(receipt_date.year) / f"{receipt_date.month:02d}", relative
\* to the root
DirPath(d) == Str(d.year) \o <<"/">> \o ZeroPad(Str(d.month), 2)

\* Path.mkdir(parents=True, exist_ok=True): the directories afterwards
MkdirParents(loc) == dirs \cup {SubSeq(loc, 1, k) : k \in 0..Len(loc)}

PathExistsOrReturned(path, ds) ==
    \/ Resolve(path) \in DOMAIN files
    \/ Resolve(path) \in ds
    \/ \E i \in DOMAIN saves : saves[i].ret = path

\* file_path.exists(), with ds the directories that exist
PathExists(path, ds) == Resolve(path) \in DOMAIN files \/ Resolve(path) \in ds

FirstFreeNoLoop(dir, iso, slug, amount, counter, ds) == counter

\* the while loop of save: the counter it stops at
RECURSIVE FirstFree(_, _, _, _, _, _)
FirstFree(dir, iso, slug, amount, counter, ds) ==
    IF PathExists(dir \o <<"/">> \o Filename(iso, slug, amount, counter), ds)
    THEN FirstFree(dir, iso, slug, amount, counter + 1, ds)
    ELSE counter

\* LocalFileStore.save: the relative path it writes to and returns
SavePath(d, vendor, amount) ==
    LET slug == SlugifyVendor(vendor)
        dir  == DirPath(d)
        iso  == IsoFormat(d)
        amt  == DecimalStr(amount)
        ds   == MkdirParents(Resolve(dir))
    IN  dir \o <<"/">>
        \o Filename(iso, slug, amt, FirstFree(dir, iso, slug, amt, 1, ds))

\* -------------------------------------------------------------- store: run
MaxSaves == 3

Rep(c, n) == [i \in 1..n |-> c]

VendorAmazon    == <<"A", "m", "a", "z", "o", "n">>
VendorAmazonInc == <<"a", "m", "a", "z", "o", "n", "!">>
VendorTraversal == <<".", ".", "/", ".", ".", "/", "e", "t", "c", "/", "p", "w">>
VendorBackslash == <<"/", ".", ".", "\\", ".", ".", "/", ".", ".", "/", ".", ".", "/", "x">>
VendorLong      == Rep("a", 49) \o <<" ", "b", "c">>
VendorDots      == <<".", ".">>

Date1 == [year |-> 2025, month |-> 6, day |-> 15]
Date2 == [year |-> 2025, month |-> 12, day |-> 5]

Amount1 == [digits |-> <<"4", "2", "9", "9">>, exp |-> -2]
Amount2 == [digits |-> <<"5">>, exp |-> -2]

\* the (receipt_date, vendor, amount) arguments save is called with
SaveArgs ==
    {<<Date1, VendorAmazon, Amount1>>, <<Date1, VendorAmazonInc, Amount1>>,
     <<Date1, VendorTraversal, Amount1>>, <<Date2, VendorBackslash, Amount2>>,
     <<Date1, VendorLong, Amount2>>, <<Date1, VendorDots, Amount2>>}

Datas == {<<1>>, <<2>>}

StoreInit ==
    /\ files = <<>>
    /\ dirs = {}
    /\ saves = <<>>
    /\ failed = <<>>

\* LocalFileStore.save(receipt_date, vendor, amount, pdf_data)
Save(d, vendor, amount, data) ==
    LET path == SavePath(d, vendor, amount)
        loc  == Resolve(path)
    IN  /\ Len(saves) < MaxSaves
        /\ dirs' = MkdirParents(Resolve(DirPath(d)))
        /\ files' = [p \in DOMAIN files \cup {loc} |->
                        IF p = loc THEN data ELSE files[p]]
        /\ saves' = Append(saves, [date |-> d, vendor |-> vendor,
                                   amount |-> amount, data |-> data,
                                   ret |-> path])
        /\ UNCHANGED <<failed, adapterVars, renderVars, pureVars>>

SaveAny == \E args \in SaveArgs, b \in Datas :
               Save(args[1], args[2], args[3], b)

\* --------------------------------------------------------------- renderer
MaxAtts == 2

AppPdf      == <<"a", "p", "p", "l", "i", "c", "a", "t", "i", "o", "n", "/",
                 "p", "d", "f">>
AppPdfUpper == <<"A", "p", "p", "l", "i", "c", "a", "t", "i", "o", "n", "/",
                 "P", "D", "F">>
ImagePng    == <<"i", "m", "a", "g", "e", "/", "p", "n", "g">>
ImagePrefix == <<"i", "m", "a", "g", "e", "/">>

\* str.lower()
LowerStr(s) == [i \in DOMAIN s |-> Lower(s[i])]

\* str.startswith(prefix)
StartsWith(s, prefix) ==
    Len(s) >= Len(prefix) /\ SubSeq(s, 1, Len(prefix)) = prefix

\* a value Python treats as true: neither None nor the empty string
Truthy(b) == b # None /\ b # <<>>

\* _find_pdf_attachment: found is `is not None`
RECURSIVE FindPdfAttachment(_)
FindPdfAttachment(attachments) ==
    IF attachments = <<>> THEN [found |-> FALSE, data |-> <<>>]
    ELSE IF LowerStr(Head(attachments).content_type) = AppPdf
         THEN [found |-> TRUE, data |-> Head(attachments).data]
         ELSE FindPdfAttachment(Tail(attachments))

B64Alphabet ==
    UpperAlpha \o LowerAlpha \o Digit \o <<"+", "/">>

\* base64.b64encode(data).decode("ascii")
RECURSIVE B64Encode(_)
B64Encode(data) ==
    IF data = <<>> THEN <<>>
    ELSE IF Len(data) = 1
    THEN <<B64Alphabet[(data[1] \div 4) + 1],
           B64Alphabet[((data[1] % 4) * 16) + 1], "=", "=">>
    ELSE IF Len(data) = 2
    THEN <<B64Alphabet[(data[1] \div 4) + 1],
           B64Alphabet[((data[1] % 4) * 16 + data[2] \div 16) + 1],
           B64Alphabet[((data[2] % 16) * 4) + 1], "=">>
    ELSE <<B64Alphabet[(data[1] \div 4) + 1],
           B64Alphabet[((data[1] % 4) * 16 + data[2] \div 16) + 1],
           B64Alphabet[((data[2] % 16) * 4 + data[3] \div 64) + 1],
           B64Alphabet[(data[3] % 64) + 1]>>
         \o B64Encode(SubSeq(data, 4, Len(data)))

\* f"data:{att.content_type};base64,{b64}"
DataUri(att) ==
    <<"d", "a", "t", "a", ":">> \o att.content_type
    \o <<";", "b", "a", "s", "e", "6", "4", ",">> \o B64Encode(att.data)

LookupImageAnyType(cid, attachments) ==
    LET hits == {i \in DOMAIN attachments : attachments[i].filename = cid}
    IN  IF hits = {} THEN 0 ELSE CHOOSE i \in hits : \A j \in hits : j <= i

\* attachment_map.get(cid): the index of the last image attachment with that
\* filename (a later dict entry replaces an earlier one), 0 for None
LookupImage(cid, attachments) ==
    LET hits == {i \in DOMAIN attachments :
                    /\ StartsWith(attachments[i].content_type, ImagePrefix)
                    /\ attachments[i].filename = cid}
    IN  IF hits = {} THEN 0 ELSE CHOOSE i \in hits : \A j \in hits : j <= i

\* the characters that end the token of the pattern cid:([^\s"'>]+)
CidDelims == {" ", "\t", "\n", "\"", "'", ">"}

CidPrefix == <<"c", "i", "d", ":">>

\* the length of the longest run of token characters of s starting at i
RECURSIVE TokenLen(_, _)
TokenLen(s, i) ==
    IF i > Len(s) \/ s[i] \in CidDelims THEN 0 ELSE 1 + TokenLen(s, i + 1)

\* re.sub(r"cid:([^\s\"'>]+)", replace_cid, html_content), from position i
RECURSIVE ReplaceCid(_, _, _)
ReplaceCid(s, i, attachments) ==
    IF i > Len(s) THEN <<>>
    ELSE IF /\ i + 3 <= Len(s)
            /\ SubSeq(s, i, i + 3) = CidPrefix
            /\ TokenLen(s, i + 4) >= 1
    THEN LET n == TokenLen(s, i + 4)
             k == LookupImage(SubSeq(s, i + 4, i + 3 + n), attachments)
         IN  (IF k = 0 THEN SubSeq(s, i, i + 3 + n)
              ELSE DataUri(attachments[k]))
             \o ReplaceCid(s, i + 4 + n, attachments)
    ELSE <<s[i]>> \o ReplaceCid(s, i + 1, attachments)

\* _embed_inline_images
EmbedInlineImages(html_content, attachments) ==
    IF \A i \in DOMAIN attachments :
           ~StartsWith(attachments[i].content_type, ImagePrefix)
    THEN html_content
    ELSE ReplaceCid(html_content, 1, attachments)

\* html.escape(s), quote=True
RECURSIVE HtmlEscape(_)
HtmlEscape(s) ==
    IF s = <<>> THEN <<>>
    ELSE (CASE Head(s) = "&"  -> <<"&", "a", "m", "p", ";">>
            [] Head(s) = "<"  -> <<"&", "l", "t", ";">>
            [] Head(s) = ">"  -> <<"&", "g", "t", ";">>
            [] Head(s) = "\"" -> <<"&", "q", "u", "o", "t", ";">>
            [] Head(s) = "'"  -> <<"&", "#", "x", "2", "7", ";">>
            [] OTHER          -> <<Head(s)>>)
         \o HtmlEscape(Tail(s))

NoBodyContent ==
    <<"(", "n", "o", " ", "b", "o", "d", "y", " ", "c", "o", "n", "t", "e",
      "n", "t", ")">>

\* PLAIN_TEXT_TEMPLATE.format(subject=, sender=, date=, body=): each fixed
\* stretch of the template is written as one element
TextTemplate(subject, sender, date, body) ==
    <<"<!DOCTYPE html>..<strong>Subject:</strong> ">> \o subject
    \o <<"</p><p><strong>From:</strong> ">> \o sender
    \o <<"</p><p><strong>Date:</strong> ">> \o date
    \o <<"</p></div><pre>">> \o body \o <<"</pre></body></html>">>

\* _render_text_to_pdf: the HTML it hands to _html_to_pdf_bytes
RenderTextHtml(r) ==
    TextTemplate(HtmlEscape(r.subject), HtmlEscape(r.sender),
                 HtmlEscape(r.date),
                 HtmlEscape(IF Truthy(r.text_body) THEN r.text_body
                            ELSE NoBodyContent))

\* what weasyprint's write_pdf returns: a document that begins "%PDF"
PdfMagic == <<37, 80, 68, 70>>

RenderPlanHtmlFirst(r) ==
    LET pdf == FindPdfAttachment(r.attachments)
    IN  IF Truthy(r.html_body)
        THEN [engine |-> TRUE, bytes |-> <<>>,
              html |-> EmbedInlineImages(r.html_body, r.attachments)]
        ELSE IF pdf.found
        THEN [engine |-> FALSE, bytes |-> pdf.data, html |-> None]
        ELSE [engine |-> TRUE, bytes |-> <<>>, html |-> RenderTextHtml(r)]

RenderPlanEmptyFallback(r) ==
    LET pdf == FindPdfAttachment(r.attachments)
    IN  IF pdf.found
        THEN [engine |-> FALSE, bytes |-> pdf.data, html |-> None]
        ELSE IF Truthy(r.html_body)
        THEN [engine |-> TRUE, bytes |-> <<>>,
              html |-> EmbedInlineImages(r.html_body, r.attachments)]
        ELSE IF Truthy(r.text_body)
        THEN [engine |-> TRUE, bytes |-> <<>>, html |-> RenderTextHtml(r)]
        ELSE [engine |-> FALSE, bytes |-> <<>>, html |-> None]

\* render_pdf: either the bytes it returns at once (tier 1), or the HTML it
\* hands to the engine (tiers 2 to 4)
RenderPlan(r) ==
    LET pdf == FindPdfAttachment(r.attachments)
    IN  IF pdf.found
        THEN [engine |-> FALSE, bytes |-> pdf.data, html |-> None]
        ELSE IF Truthy(r.html_body)
        THEN [engine |-> TRUE, bytes |-> <<>>,
              html |-> EmbedInlineImages(r.html_body, r.attachments)]
        ELSE IF Truthy(r.text_body)
        THEN [engine |-> TRUE, bytes |-> <<>>, html |-> RenderTextHtml(r)]
        ELSE [engine |-> TRUE, bytes |-> <<>>, html |-> RenderTextHtml(r)]

AttPdf      == [filename |-> <<"r">>, content_type |-> AppPdf, data |-> <<1>>]
AttPdfUpper == [filename |-> <<"u">>, content_type |-> AppPdfUpper,
                data |-> <<2, 9>>]
AttPdfEmpty == [filename |-> <<"e">>, content_type |-> AppPdf, data |-> <<>>]
AttPng      == [filename |-> <<"l">>, content_type |-> ImagePng,
                data |-> <<3>>]

Attachments == {AttPdf, AttPdfUpper, AttPdfEmpty, AttPng}

HtmlBody == <<"<", "i", " ", "c", "i", "d", ":", "l", ">", "c", "i", "d", ":",
              "z">>
TextBody == <<"h", "<", "&">>

RawReceipts ==
    [subject     : {<<"s", ">">>},
     sender      : {<<"f">>},
     date        : {<<"2", "0", "2", "5">>},
     html_body   : {None, <<>>, HtmlBody},
     text_body   : {None, <<>>, TextBody},
     attachments : SeqsUpTo(Attachments, MaxAtts)]

RenderInit ==
    /\ raw \in RawReceipts
    /\ rpc = "ready"
    /\ result = <<>>
    /\ engineInput = None

\* render_pdf(raw) returns
RenderPdf ==
    /\ rpc = "ready"
    /\ LET plan == RenderPlan(raw)
       IN  /\ result' = IF plan.engine THEN PdfMagic ELSE plan.bytes
           /\ engineInput' = plan.html
    /\ rpc' = "returned"
    /\ UNCHANGED <<raw, adapterVars, storeVars, pureVars>>

\* render_pdf(raw) when weasyprint raises: nothing in renderer.py catches it
RenderPdfEngineRaises ==
    /\ rpc = "ready"
    /\ RenderPlan(raw).engine
    /\ engineInput' = RenderPlan(raw).html
    /\ rpc' = "raised"
    /\ UNCHANGED <<raw, result, adapterVars, storeVars, pureVars>>

\* ------------------------------------------------- identity (_get_message_id)
MaxCalls == 2

\* what a call that raised leaves in rets
AttributeError == <<"AttributeError">>

\* the Message-ID, Subject, Date and From headers msg.get may return
MidHeaders == {None, <<>>, <<"a">>, <<" ", "a", " ">>, <<" ">>, HeaderObj}

SubjectHeaders == {None, <<"s">>, <<"s", "|">>}

DateHeaders == {None, <<"d">>}

FromHeaders == {None, <<"f">>, <<"|", "f">>}

IdentityInit ==
    /\ arg \in [mid : MidHeaders, subject : SubjectHeaders,
                date : DateHeaders, sender : FromHeaders]
    /\ rets = <<>>

\* ImapAdapter._get_message_id(msg)
GetMessageIdCall ==
    /\ Len(rets) < MaxCalls
    /\ rets' = Append(rets, IF GetMessageIdRaises(arg) THEN AttributeError
                            ELSE GetMessageId(arg))
    /\ UNCHANGED <<arg, adapterVars, storeVars, renderVars>>

\* ------------------------------------------- ReceiptMetadata (models.py)
\* the keyword argument is not passed
Omitted == <<"omitted">>

\* Field(default="USD")
CurrencyDefault == <<"U", "S", "D">>

\* the {3} of Field(pattern=r"^[A-Z]{3}$")
CurrencyLen == 3

\* Field(pattern=r"^[A-Z]{3}$"): the whole string is three letters A to Z
MatchesCurrencyPattern(s) ==
    Len(s) = CurrencyLen /\ \A i \in DOMAIN s : s[i] \in Range(UpperAlpha)

\* confidence is counted in hundredths: 100 stands for 1.0
ConfidenceOne == 100

\* the fields whose constraint the arguments break
FieldErrors(a) ==
    {f \in {"vendor", "amount", "currency", "confidence"} :
        \/ f = "vendor" /\ ~(Len(a.vendor) >= 1)
        \/ f = "amount" /\ ~(a.amount > 0)
        \/ /\ f = "currency"
           /\ a.currency # Omitted
           /\ ~MatchesCurrencyPattern(a.currency)
        \/ f = "confidence"
           /\ ~(a.confidence >= 0 /\ a.confidence <= ConfidenceOne)}

NoModel == [vendor |-> <<>>, amount |-> 0, currency |-> <<>>, confidence |-> 0]

ValidateClamping(a) ==
    LET errors == FieldErrors(a) \ {"confidence"}
    IN  IF errors # {}
        THEN [ok |-> FALSE, errors |-> errors, model |-> NoModel]
        ELSE [ok |-> TRUE, errors |-> {},
              model |-> [vendor     |-> a.vendor,
                         amount     |-> a.amount,
                         currency   |-> IF a.currency = Omitted
                                        THEN CurrencyDefault ELSE a.currency,
                         confidence |->
                             IF a.confidence < 0 THEN 0
                             ELSE IF a.confidence > ConfidenceOne
                                  THEN ConfidenceOne ELSE a.confidence]]

\* ReceiptMetadata(vendor=, amount=, currency=, date=, confidence=): pydantic
\* raises ValidationError naming the fields, or builds the model with the
\* values as passed and the default for an omitted currency
Validate(a) ==
    LET errors == FieldErrors(a)
    IN  IF errors # {}
        THEN [ok |-> FALSE, errors |-> errors, model |-> NoModel]
        ELSE [ok |-> TRUE, errors |-> {},
              model |-> [vendor     |-> a.vendor,
                         amount     |-> a.amount,
                         currency   |-> IF a.currency = Omitted
                                        THEN CurrencyDefault ELSE a.currency,
                         confidence |-> a.confidence]]

MetaVendors == {<<>>, <<"A">>}

\* amounts in cents
MetaAmounts == {-1000, 0, 1, 50}

MetaCurrencies ==
    {Omitted, CurrencyDefault, <<"C", "A", "D">>, <<"u", "s", "d">>,
     <<"U", "S">>, <<"U", "S", "D", "X">>, <<"1", "2", "3">>,
     <<"U", "S", " ">>, <<>>}

MetaConfidences == {-10, 0, 95, ConfidenceOne, 110}

MetaInit ==
    /\ arg \in [vendor : MetaVendors, amount : MetaAmounts,
                currency : MetaCurrencies, confidence : MetaConfidences]
    /\ rets = <<>>

\* ReceiptMetadata(...)
Construct ==
    /\ Len(rets) < MaxCalls
    /\ rets' = Append(rets, Validate(arg))
    /\ UNCHANGED <<arg, adapterVars, storeVars, renderVars>>

\* --------------------------------------------- tag stripper (extraction.py)
\* the first position j >= i with s[j] = c, 0 if there is none (str.find)
IndexFrom(s, c, i) ==
    LET P == {j \in i..Len(s) : s[j] = c}
    IN  IF P = {} THEN 0 ELSE CHOOSE j \in P : \A q \in P : j <= q

\* the last position j >= i with s[j] = c, 0 if there is none (str.rfind)
RIndexFrom(s, c, i) ==
    LET P == {j \in i..Len(s) : s[j] = c}
    IN  IF P = {} THEN 0 ELSE CHOOSE j \in P : \A q \in P : j >= q

\* t occurs in s as a contiguous stretch (the `in` of two strings)
Contains(s, t) ==
    \E i \in 0..(Len(s) - Len(t)) : SubSeq(s, i + 1, i + Len(t)) = t

Letters == Range(LowerAlpha) \cup Range(UpperAlpha)

Digits == {"0", "1", "2", "3", "4", "5", "6", "7", "8", "9"}

Whitespace == {" ", "\t", "\n", "\r", "\f"}

\* html.entities.html5, the names the inputs can spell: each is also listed
\* without its semicolon
Html5 == [n \in {<<"a", "m", "p">>, <<"l", "t">>, <<"g", "t">>} |->
             IF n = <<"a", "m", "p">> THEN "&"
             ELSE IF n = <<"l", "t">> THEN "<" ELSE ">"]

\* chr(num) for the code points the inputs can spell
Chr(num) == IF num = 38 THEN "&"
            ELSE IF num = 60 THEN "<"
            ELSE IF num = 62 THEN ">" ELSE "?"

DigitValue(c) == CHOOSE v \in 0..9 : Digit[v + 1] = c

RECURSIVE DecimalValue(_)
DecimalValue(ds) ==
    IF ds = <<>> THEN 0
    ELSE 10 * DecimalValue(SubSeq(ds, 1, Len(ds) - 1))
         + DigitValue(ds[Len(ds)])

\* the length of the run of characters of s from position i that lie in
\* (or, with inside = FALSE, outside) the set C, at most max long
RunLen(s, i, C, inside, max) ==
    LET stop == {j \in i..Len(s) : (s[j] \in C) # inside}
        end  == IF stop = {} THEN Len(s) + 1
                ELSE CHOOSE j \in stop : \A q \in stop : j <= q
    IN  IF end - i > max THEN max ELSE end - i

\* the longest entity name of the table s starts with, as a length, 0 if none
EntityPrefixLen(s) ==
    LET L == {x \in 2..Len(s) : SubSeq(s, 1, x) \in DOMAIN Html5}
    IN  IF L = {} THEN 0 ELSE CHOOSE x \in L : \A q \in L : x >= q

\* the characters a name in html.unescape's pattern may not hold
NameStops == {"\t", "\n", "\f", " ", "<", "&", "#", ";"}

\* the longest name html.unescape's pattern takes
NameMax == 32

\* html.unescape(text): &#digits; and &name; with or without the semicolon
\* are replaced, a name the table does not know by its longest known prefix
RECURSIVE Unescape(_)
Unescape(t) ==
    IF t = <<>> THEN <<>>
    ELSE IF Head(t) # "&" THEN <<Head(t)>> \o Unescape(Tail(t))
    ELSE IF Len(t) >= 3 /\ t[2] = "#" /\ t[3] \in Digits
    THEN LET d    == RunLen(t, 3, Digits, TRUE, Len(t))
             semi == IF 3 + d <= Len(t) /\ t[3 + d] = ";" THEN 1 ELSE 0
         IN  <<Chr(DecimalValue(SubSeq(t, 3, 2 + d)))>>
             \o Unescape(SubSeq(t, 3 + d + semi, Len(t)))
    ELSE LET n    == RunLen(t, 2, NameStops, FALSE, NameMax)
             name == SubSeq(t, 2, 1 + n)
             semi == IF 2 + n <= Len(t) /\ t[2 + n] = ";" THEN 1 ELSE 0
             p    == EntityPrefixLen(name)
         IN  IF n = 0 THEN <<"&">> \o Unescape(Tail(t))
             ELSE IF name \in DOMAIN Html5
             THEN <<Html5[name]>> \o Unescape(SubSeq(t, 2 + n + semi, Len(t)))
             ELSE IF p > 0
             THEN <<Html5[SubSeq(name, 1, p)]>>
                  \o Unescape(SubSeq(t, 2 + p, Len(t)))
             ELSE <<"&">> \o Unescape(Tail(t))

\* how far before the end of the buffer HTMLParser.goahead looks for an
\* ampersand that may start a cut-off reference
AmpWindow == 34

\* HTMLParser.goahead(end=False) from position i with convert_charrefs true,
\* the default super().__init__() leaves: text up to the next "<" goes
\* unescaped to handle_data; a tag "<" letter or "</" is skipped up to its
\* ">"; any other "<" is data; text the parser keeps waiting on (an unclosed
\* tag, a trailing "<", a last "&" followed by neither blank nor ";") never
\* reaches handle_data, feed being called once and close never.  Tags here
\* carry no quoted attribute, comment, declaration, script or style.
RECURSIVE GoAhead(_, _)
GoAhead(h, i) ==
    LET n == Len(h)
        j == IndexFrom(h, "<", i)
    IN  IF i > n THEN <<>>
        ELSE IF j = 0
        THEN LET from   == IF n - AmpWindow + 1 > i THEN n - AmpWindow + 1
                           ELSE i
                 amppos == RIndexFrom(h, "&", from)
             IN  IF /\ amppos > 0
                    /\ \A q \in amppos..n : h[q] \notin Whitespace \cup {";"}
                 THEN <<>>
                 ELSE Unescape(SubSeq(h, i, n))
        ELSE LET data == Unescape(SubSeq(h, i, j - 1))
                 k    == IndexFrom(h, ">", j + 1)
             IN  IF j = n THEN data
                 ELSE IF h[j + 1] \in Letters \cup {"/"}
                 THEN IF k = 0 THEN data ELSE data \o GoAhead(h, k + 1)
                 ELSE data \o <<"<">> \o GoAhead(h, j + 1)

\* _strip_html_tags(html): feed, then the handle_data parts joined
StripHtmlTags(html) == GoAhead(html, 1)

MaxPieces == 2

HtmlPieces ==
    {<<"<", "p", ">">>, <<"<", "/", "p", ">">>, <<"x">>, <<" ">>,
     <<"&", "a", "m", "p", ";">>, <<"&", "#", "3", "8", ";">>, <<"&">>,
     <<"<">>}

RECURSIVE Concat(_)
Concat(ss) == IF ss = <<>> THEN <<>> ELSE Head(ss) \o Concat(Tail(ss))

StripInit ==
    /\ arg \in {Concat(ps) : ps \in SeqsUpTo(HtmlPieces, MaxPieces)}
    /\ rets = <<>>

\* _strip_html_tags(html)
StripHtmlTagsCall ==
    /\ Len(rets) < MaxCalls
    /\ rets' = Append(rets, StripHtmlTags(arg))
    /\ UNCHANGED <<arg, adapterVars, storeVars, renderVars>>

\* ------------------------------------------- prompt builder (extraction.py)
\* datetime.isoformat() of a timestamp at midnight UTC
DateTimeIsoFormat(d) == IsoFormat(d) \o <<"T00:00:00+00:00">>

\* the marker _build_prompt writes for a message without body
PromptNoBody ==
    <<"(", "n", "o", " ", "b", "o", "d", "y", " ", "c", "o", "n", "t", "e",
      "n", "t", ")">>

BuildPromptHtmlFirst(r) ==
    <<"Subject: ">> \o r.subject \o <<"\n">>
    \o <<"From: ">> \o r.sender \o <<"\n">>
    \o <<"Date: ">> \o DateTimeIsoFormat(r.date) \o <<"\n">>
    \o <<"\n">>
    \o <<"--- Email Body ---">> \o <<"\n">>
    \o (IF Truthy(r.html_body) THEN StripHtmlTags(r.html_body)
        ELSE IF Truthy(r.text_body) THEN r.text_body
        ELSE PromptNoBody)

BuildPromptByPresence(r) ==
    <<"Subject: ">> \o r.subject \o <<"\n">>
    \o <<"From: ">> \o r.sender \o <<"\n">>
    \o <<"Date: ">> \o DateTimeIsoFormat(r.date) \o <<"\n">>
    \o <<"\n">>
    \o <<"--- Email Body ---">> \o <<"\n">>
    \o (IF r.text_body # None THEN r.text_body
        ELSE IF r.html_body # None THEN StripHtmlTags(r.html_body)
        ELSE PromptNoBody)

\* _build_prompt(raw): "\n".join(parts), each fixed stretch of the header
\* lines written as one element
BuildPrompt(r) ==
    <<"Subject: ">> \o r.subject \o <<"\n">>
    \o <<"From: ">> \o r.sender \o <<"\n">>
    \o <<"Date: ">> \o DateTimeIsoFormat(r.date) \o <<"\n">>
    \o <<"\n">>
    \o <<"--- Email Body ---">> \o <<"\n">>
    \o (IF Truthy(r.text_body) THEN r.text_body
        ELSE IF Truthy(r.html_body) THEN StripHtmlTags(r.html_body)
        ELSE PromptNoBody)

PromptSubjects == {<<>>, <<"S">>}

PromptSenders == {<<"f">>, <<"g", "@", "x">>}

PromptTextBodies == {None, <<>>, <<"T", "\n", "1">>}

PromptHtmlBodies ==
    {None, <<>>, <<"<", "p", ">", "h", "<", "/", "p", ">">>,
     <<"h", " ", "<", "b", ">", "2", "<", "/", "b", ">">>}

PromptInit ==
    /\ arg \in [subject : PromptSubjects, sender : PromptSenders,
                date : {Date1, Date2}, text_body : PromptTextBodies,
                html_body : PromptHtmlBodies]
    /\ rets = <<>>

\* _build_prompt(raw)
BuildPromptCall ==
    /\ Len(rets) < MaxCalls
    /\ rets' = Append(rets, BuildPrompt(arg))
    /\ UNCHANGED <<arg, adapterVars, storeVars, renderVars>>

\* ------------------------------------- inline images (_embed_inline_images)
TextPlain == <<"t", "e", "x", "t", "/", "p", "l", "a", "i", "n">>

ImageJpeg == <<"i", "m", "a", "g", "e", "/", "j", "p", "e", "g">>

\* a non-image attachment whose filename is the token of a reference
AttTxtL == [filename |-> <<"l">>, content_type |-> TextPlain, data |-> <<7>>]

\* an image no reference names
AttJpgQ == [filename |-> <<"q">>, content_type |-> ImageJpeg,
            data |-> <<4, 5>>]

EmbedAttachments == {AttPng, AttTxtL, AttJpgQ}

CidPieces ==
    {<<"c", "i", "d", ":", "l">>, <<"\"", "c", "i", "d", ":", "z">>,
     <<"c", "i", "d", ":">>, <<"\"">>, <<"x">>}

EmbedInit ==
    /\ arg \in [html : {Concat(ps) : ps \in SeqsUpTo(CidPieces, MaxPieces)},
                attachments : SeqsUpTo(EmbedAttachments, MaxAtts)]
    /\ rets = <<>>

\* _embed_inline_images(html_content, attachments)
EmbedInlineImagesCall ==
    /\ Len(rets) < MaxCalls
    /\ rets' = Append(rets, EmbedInlineImages(arg.html, arg.attachments))
    /\ UNCHANGED <<arg, adapterVars, storeVars, renderVars>>

\* ------------------------- MIME decomposition (_extract_body_and_attachments)
MaxParts == 2

TextHtml == <<"t", "e", "x", "t", "/", "h", "t", "m", "l">>

MultipartAlternative ==
    <<"m", "u", "l", "t", "i", "p", "a", "r", "t", "/", "a", "l", "t", "e",
      "r", "n", "a", "t", "i", "v", "e">>

MessageRfc822 ==
    <<"m", "e", "s", "s", "a", "g", "e", "/", "r", "f", "c", "8", "2", "2">>

OctetStream ==
    <<"a", "p", "p", "l", "i", "c", "a", "t", "i", "o", "n", "/", "o", "c",
      "t", "e", "t", "-", "s", "t", "r", "e", "a", "m">>

Multipart == <<"m", "u", "l", "t", "i", "p", "a", "r", "t">>

AttachmentWord ==
    <<"a", "t", "t", "a", "c", "h", "m", "e", "n", "t">>

Unnamed == <<"u", "n", "n", "a", "m", "e", "d">>

InlineImageName ==
    <<"i", "n", "l", "i", "n", "e", "-", "i", "m", "a", "g", "e">>

\* part.get_content_maintype()
MainType(content_type) ==
    LET slash == IndexFrom(content_type, "/", 1)
    IN  IF slash = 0 THEN content_type ELSE SubSeq(content_type, 1, slash - 1)

\* str.strip(chars)
StripSet(s, C) ==
    LET keep == {i \in DOMAIN s : s[i] \notin C}
    IN  IF keep = {} THEN <<>>
        ELSE SubSeq(s, CHOOSE i \in keep : \A q \in keep : i <= q,
                       CHOOSE i \in keep : \A q \in keep : i >= q)

\* the character of one byte under bytes.decode(charset, errors="replace"):
\* ASCII bytes are their character, a byte that is no text becomes U+FFFD
DecodeByte(b) ==
    IF b = 104 THEN "h"
    ELSE IF b = 116 THEN "t"
    ELSE IF b \in 48..57 THEN Digit[b - 47]
    ELSE "U+FFFD"

\* payload.decode(charset, errors="replace")
Decode(payload) == [i \in DOMAIN payload |-> DecodeByte(payload[i])]

\* part.get_payload(decode=True) is None: a part that holds parts or a message
PayloadIsNone(part) == part.holds # "data"

\* `bool(filename) or "attachment" in disposition.lower()`
IsAttachment(part) ==
    \/ Truthy(part.filename)
    \/ Contains(LowerStr(part.disposition), AttachmentWord)

NoBodies == [html_body |-> None, text_body |-> None, attachments |-> <<>>]

ExtractPartLastWins(acc, part) ==
    IF MainType(part.content_type) = Multipart THEN acc
    ELSE IF PayloadIsNone(part) THEN acc
    ELSE IF IsAttachment(part)
    THEN [acc EXCEPT !.attachments =
              Append(@, [filename     |-> IF Truthy(part.filename)
                                          THEN part.filename ELSE Unnamed,
                         content_type |-> part.content_type,
                         data         |-> part.payload])]
    ELSE IF part.content_type = TextHtml
    THEN [acc EXCEPT !.html_body = Decode(part.payload)]
    ELSE IF part.content_type = TextPlain
    THEN [acc EXCEPT !.text_body = Decode(part.payload)]
    ELSE IF StartsWith(part.content_type, ImagePrefix)
    THEN [acc EXCEPT !.attachments =
              Append(@, [filename     |-> IF part.content_id # <<>>
                                          THEN StripSet(part.content_id,
                                                        {"<", ">"})
                                          ELSE InlineImageName,
                         content_type |-> part.content_type,
                         data         |-> part.payload])]
    ELSE acc

ExtractPartBodyFirst(acc, part) ==
    IF MainType(part.content_type) = Multipart THEN acc
    ELSE IF PayloadIsNone(part) THEN acc
    ELSE IF part.content_type = TextHtml /\ acc.html_body = None
    THEN [acc EXCEPT !.html_body = Decode(part.payload)]
    ELSE IF part.content_type = TextPlain /\ acc.text_body = None
    THEN [acc EXCEPT !.text_body = Decode(part.payload)]
    ELSE IF IsAttachment(part)
    THEN [acc EXCEPT !.attachments =
              Append(@, [filename     |-> IF Truthy(part.filename)
                                          THEN part.filename ELSE Unnamed,
                         content_type |-> part.content_type,
                         data         |-> part.payload])]
    ELSE IF StartsWith(part.content_type, ImagePrefix)
    THEN [acc EXCEPT !.attachments =
              Append(@, [filename     |-> IF part.content_id # <<>>
                                          THEN StripSet(part.content_id,
                                                        {"<", ">"})
                                          ELSE InlineImageName,
                         content_type |-> part.content_type,
                         data         |-> part.payload])]
    ELSE acc

\* one pass of the body of `for part in msg.walk()`
ExtractPart(acc, part) ==
    IF MainType(part.content_type) = Multipart THEN acc
    ELSE IF PayloadIsNone(part) THEN acc
    ELSE IF IsAttachment(part)
    THEN [acc EXCEPT !.attachments =
              Append(@, [filename     |-> IF Truthy(part.filename)
                                          THEN part.filename ELSE Unnamed,
                         content_type |-> part.content_type,
                         data         |-> part.payload])]
    ELSE IF part.content_type = TextHtml /\ acc.html_body = None
    THEN [acc EXCEPT !.html_body = Decode(part.payload)]
    ELSE IF part.content_type = TextPlain /\ acc.text_body = None
    THEN [acc EXCEPT !.text_body = Decode(part.payload)]
    ELSE IF StartsWith(part.content_type, ImagePrefix)
    THEN [acc EXCEPT !.attachments =
              Append(@, [filename     |-> IF part.content_id # <<>>
                                          THEN StripSet(part.content_id,
                                                        {"<", ">"})
                                          ELSE InlineImageName,
                         content_type |-> part.content_type,
                         data         |-> part.payload])]
    ELSE acc

\* the for loop over msg.walk(), the root part left out: it is the
\* multipart container (or message) itself and is passed over
RECURSIVE WalkParts(_, _)
WalkParts(acc, parts) ==
    IF parts = <<>> THEN acc
    ELSE WalkParts(ExtractPart(acc, Head(parts)), Tail(parts))

\* _extract_body_and_attachments(msg): msg.walk is the message's parts in
\* traversal order, containers included; a message that is not multipart is
\* its one part
ExtractBodyAndAttachments(msg) ==
    IF ~msg.is_multipart
    THEN LET part == msg.parts[1]
         IN  IF PayloadIsNone(part) THEN NoBodies
             ELSE IF part.content_type = TextHtml
             THEN [NoBodies EXCEPT !.html_body = Decode(part.payload)]
             ELSE IF part.content_type = TextPlain
             THEN [NoBodies EXCEPT !.text_body = Decode(part.payload)]
             ELSE NoBodies
    ELSE WalkParts(NoBodies, msg.parts)

Part(ct, fn, disp, cid, holds, payload) ==
    [content_type |-> ct, filename |-> fn, disposition |-> disp,
     content_id |-> cid, holds |-> holds, payload |-> payload]

InlineWord == <<"i", "n", "l", "i", "n", "e">>

PartContainer == Part(MultipartAlternative, None, <<>>, <<>>, "parts", <<>>)
PartMessage   == Part(MessageRfc822, <<"m">>, AttachmentWord, <<>>,
                      "message", <<>>)
PartHtml1     == Part(TextHtml, None, <<>>, <<>>, "data", <<104, 49>>)
PartHtml2     == Part(TextHtml, None, InlineWord, <<>>, "data", <<104, 50>>)
PartHtmlEmpty == Part(TextHtml, None, <<>>, <<>>, "data", <<>>)
PartText1     == Part(TextPlain, None, <<>>, <<>>, "data", <<116, 49>>)
PartText2     == Part(TextPlain, None, <<>>, <<>>, "data", <<116, 255>>)
PartHtmlFile  == Part(TextHtml, <<"a">>, <<>>, <<>>, "data", <<104, 57>>)
PartTextDisp  == Part(TextPlain, None,
                      <<"A", "t", "t", "a", "c", "h", "m", "e", "n", "t">>,
                      <<>>, "data", <<116, 57>>)
PartPdf       == Part(AppPdf, <<"r">>, AttachmentWord, <<>>, "data", <<1>>)
PartImageCid  == Part(ImagePng, None, InlineWord, <<"<", "l", ">">>, "data",
                      <<3>>)
PartImage     == Part(ImagePng, None, <<>>, <<>>, "data", <<4>>)
PartImageFile == Part(ImagePng, <<"p">>, InlineWord, <<"<", "c", ">">>,
                      "data", <<5>>)
PartOther     == Part(OctetStream, None, <<>>, <<>>, "data", <<6>>)

Parts ==
    {PartContainer, PartMessage, PartHtml1, PartHtml2, PartHtmlEmpty,
     PartText1, PartText2, PartHtmlFile, PartTextDisp, PartPdf, PartImageCid,
     PartImage, PartImageFile, PartOther}

\* the parts a message that is not multipart can be
Leaves == {p \in Parts : p.holds = "data"}

ExtractInit ==
    /\ arg \in {[is_multipart |-> TRUE, parts |-> ps] :
                    ps \in SeqsUpTo(Parts, MaxParts)}
               \cup {[is_multipart |-> FALSE, parts |-> <<p>>] : p \in Leaves}
    /\ rets = <<>>

\* ImapAdapter._extract_body_and_attachments(msg)
ExtractBodyAndAttachmentsCall ==
    /\ Len(rets) < MaxCalls
    /\ rets' = Append(rets, ExtractBodyAndAttachments(arg))
    /\ UNCHANGED <<arg, adapterVars, storeVars, renderVars>>

\* ------------------------------------------- a scan with its consumer
\* fetch_unprocessed(processed_ids) tests membership in the caller's own set
\* object; between two next() calls the caller is free to add to it.

\* the messages of the folder scanned
ScanMessages == {MsgA, MsgA2, MsgD, MsgH, MsgN, MsgE, MsgT}

\* the identities the caller may record
ScanIds == {<<"a">>, <<"c">>}

ScanInit ==
    /\ mailbox \in SeqsUpTo(ScanMessages, MaxMsgs)
    /\ processed_ids \in SUBSET ScanIds
    /\ pc = "created"
    /\ conn = FALSE
    /\ sockOpen = FALSE
    /\ msg_ids = <<>>
    /\ idx = 0
    /\ yielded = <<>>
    /\ exc = "none"
    /\ cmds = <<>>
    /\ log = <<>>

\* the caller adds an identity to the set while the generator is suspended
\* at `yield receipt`
CallerAdds ==
    /\ pc = "suspended"
    /\ \E x \in ScanIds \ processed_ids :
           processed_ids' = processed_ids \cup {x}
    /\ UNCHANGED <<mailbox, pc, conn, sockOpen, msg_ids, idx, yielded, exc,
                   cmds, log,
                   storeVars, renderVars, pureVars>>

\* ----------------------------------------------------- store: failing save
MaxFails == 1

\* the (receipt_date, vendor, amount) arguments of the calls followed here:
\* two vendors with one slug
StoreOpsArgs ==
    {<<Date1, VendorAmazon, Amount1>>, <<Date1, VendorAmazonInc, Amount1>>}

StoreOpsDatas == {<<1>>, <<1, 2>>}

SaveOps == \E args \in StoreOpsArgs, b \in StoreOpsDatas :
               Save(args[1], args[2], args[3], b)

\* dir_path.mkdir(parents=True, exist_ok=True) raises OSError: the parents
\* made before the failing one stay, no file is opened
SaveMkdirFails(d, vendor, amount, data) ==
    LET loc == Resolve(DirPath(d))
    IN  /\ Len(failed) < MaxFails
        /\ \E made \in 0..Len(loc) :
               dirs' = dirs \cup {SubSeq(loc, 1, k) : k \in 0..(made - 1)}
        /\ failed' = Append(failed, [date |-> d, vendor |-> vendor,
                                     amount |-> amount, data |-> data,
                                     target |-> None])
        /\ UNCHANGED <<files, saves, adapterVars, renderVars, pureVars>>

\* file_path.write_bytes(pdf_data) raises OSError once the file is open: what
\* the file may hold then, any proper prefix of the data
WrittenBeforeFailure(data) == {SubSeq(data, 1, k) : k \in 0..(Len(data) - 1)}

\* write_bytes raises in open(): the directories are made, no file is
\* created
SaveOpenFails(d, vendor, amount, data) ==
    /\ Len(failed) < MaxFails
    /\ dirs' = MkdirParents(Resolve(DirPath(d)))
    /\ failed' = Append(failed, [date |-> d, vendor |-> vendor,
                                 amount |-> amount, data |-> data,
                                 target |-> SavePath(d, vendor, amount)])
    /\ UNCHANGED <<files, saves, adapterVars, renderVars, pureVars>>

\* write_bytes raises in write() or close(): the file opened with mode "wb"
\* stays as it is, nothing removes it
SaveWriteFails(d, vendor, amount, data) ==
    LET path == SavePath(d, vendor, amount)
        loc  == Resolve(path)
    IN  /\ Len(failed) < MaxFails
        /\ dirs' = MkdirParents(Resolve(DirPath(d)))
        /\ \E part \in WrittenBeforeFailure(data) :
               files' = [p \in DOMAIN files \cup {loc} |->
                            IF p = loc THEN part ELSE files[p]]
        /\ failed' = Append(failed, [date |-> d, vendor |-> vendor,
                                     amount |-> amount, data |-> data,
                                     target |-> path])
        /\ UNCHANGED <<saves, adapterVars, renderVars, pureVars>>

SaveFails == \E args \in StoreOpsArgs, b \in StoreOpsDatas :
                 \/ SaveMkdirFails(args[1], args[2], args[3], b)
                 \/ SaveOpenFails(args[1], args[2], args[3], b)
                 \/ SaveWriteFails(args[1], args[2], args[3], b)

\* ---------------------------------------------------------- store: lookups
\* the un-suffixed path of a save
BasePath(d, vendor, amount) ==
    DirPath(d) \o <<"/">>
    \o Filename(IsoFormat(d), SlugifyVendor(vendor), DecimalStr(amount), 1)

\* the relative_path arguments exists and get_path are called with: the
\* first two names of one receipt, its directory, the same file spelled with
\* "//" and ".", a name below no directory of the store, an absolute path
LookupPaths ==
    {BasePath(Date1, VendorAmazon, Amount1),
     DirPath(Date1) \o <<"/">>
         \o Filename(IsoFormat(Date1), SlugifyVendor(VendorAmazon),
                     DecimalStr(Amount1), 2),
     DirPath(Date1),
     Str(Date1.year) \o <<"/", "/">> \o ZeroPad(Str(Date1.month), 2)
         \o <<"/", ".", "/">>
         \o Filename(IsoFormat(Date1), SlugifyVendor(VendorAmazon),
                     DecimalStr(Amount1), 1),
     <<"n", "/", "p", ".", "p", "d", "f">>,
     <<"/", "e", "t", "c">>}

\* the path names a location by itself, whatever it is joined to
IsAbsolute(p) == p # <<>> /\ p[1] = "/"

\* the segments pathlib keeps of a path: empty and "." segments are dropped,
\* ".." stays
PathSegments(p) ==
    SelectSeq(Split(p), LAMBDA seg : seg # <<>> /\ seg # <<".">>)

\* self.root / relative_path: an absolute right operand replaces the root
PathJoin(p) ==
    [underRoot |-> ~IsAbsolute(p), segments |-> PathSegments(p)]

\* (self.root / relative_path).exists(): true for a file and for a directory;
\* what an absolute path names lies outside the store
ExistsResults(p) ==
    IF IsAbsolute(p) THEN BOOLEAN ELSE {PathExists(p, dirs)}

\* LocalFileStore.exists(relative_path)
Exists(p) ==
    /\ Len(rets) < MaxCalls
    /\ arg' = p
    /\ \E b \in ExistsResults(p) :
           rets' = Append(rets, [op |-> "exists", path |-> p, ret |-> b])
    /\ UNCHANGED <<adapterVars, storeVars, renderVars>>

\* LocalFileStore.get_path(relative_path)
GetPath(p) ==
    /\ Len(rets) < MaxCalls
    /\ arg' = p
    /\ rets' = Append(rets, [op |-> "get_path", path |-> p,
                             ret |-> PathJoin(p)])
    /\ UNCHANGED <<adapterVars, storeVars, renderVars>>

ExistsCall == \E p \in LookupPaths : Exists(p)

GetPathCall == \E p \in LookupPaths : GetPath(p)

\* ------------------------------------------------- store: files taken away
\* a file below the root is deleted by something other than the store, which
\* has no operation that deletes
RemoveFile ==
    /\ \E loc \in DOMAIN files :
           files' = [p \in DOMAIN files \ {loc} |-> files[p]]
    /\ UNCHANGED <<dirs, saves, failed, adapterVars, renderVars, pureVars>>

\* ------------------------------------ one message, prompt and rendering
\* the message as _build_prompt gets it and as render_pdf gets it
BodiesInit ==
    /\ arg \in [subject : {<<"S">>}, sender : {<<"f">>}, date : {Date1},
                text_body : PromptTextBodies, html_body : PromptHtmlBodies]
    /\ rets = <<>>
    /\ RenderInit

\* --------------------------------------------------------- specifications
AdapterIdle ==
    /\ mailbox = <<>>
    /\ processed_ids = {}
    /\ pc = "idle"
    /\ conn = FALSE
    /\ sockOpen = FALSE
    /\ msg_ids = <<>>
    /\ idx = 0
    /\ yielded = <<>>
    /\ exc = "none"
    /\ cmds = <<>>
    /\ log = <<>>

RenderIdle ==
    /\ raw = None
    /\ rpc = "idle"
    /\ result = <<>>
    /\ engineInput = None

PureIdle ==
    /\ arg = None
    /\ rets = <<>>

\* one call of ImapAdapter.fetch_unprocessed
Init == AdapterInit /\ StoreInit /\ RenderIdle /\ PureIdle

Next == AdapterNext

Spec == Init /\ [][Next]_vars

\* a sequence of LocalFileStore.save calls on one root
InitStore == AdapterIdle /\ StoreInit /\ RenderIdle /\ PureIdle

NextStore == SaveAny

SpecStore == InitStore /\ [][NextStore]_vars

\* one call of render_pdf
InitRender == AdapterIdle /\ StoreInit /\ RenderInit /\ PureIdle

NextRender == RenderPdf \/ RenderPdfEngineRaises

SpecRender == InitRender /\ [][NextRender]_vars

\* calls of _get_message_id on one message
InitIdentity == AdapterIdle /\ StoreInit /\ RenderIdle /\ IdentityInit

NextIdentity == GetMessageIdCall

SpecIdentity == InitIdentity /\ [][NextIdentity]_vars

\* constructions of ReceiptMetadata from one set of arguments
InitMeta == AdapterIdle /\ StoreInit /\ RenderIdle /\ MetaInit

NextMeta == Construct

SpecMeta == InitMeta /\ [][NextMeta]_vars

\* calls of _strip_html_tags on one HTML string
InitStrip == AdapterIdle /\ StoreInit /\ RenderIdle /\ StripInit

NextStrip == StripHtmlTagsCall

SpecStrip == InitStrip /\ [][NextStrip]_vars

\* calls of _build_prompt on one normalized message
InitPrompt == AdapterIdle /\ StoreInit /\ RenderIdle /\ PromptInit

NextPrompt == BuildPromptCall

SpecPrompt == InitPrompt /\ [][NextPrompt]_vars

\* calls of _embed_inline_images on one HTML string and attachment list
InitEmbed == AdapterIdle /\ StoreInit /\ RenderIdle /\ EmbedInit

NextEmbed == EmbedInlineImagesCall

SpecEmbed == InitEmbed /\ [][NextEmbed]_vars

\* calls of _extract_body_and_attachments on one message
InitExtract == AdapterIdle /\ StoreInit /\ RenderIdle /\ ExtractInit

NextExtract == ExtractBodyAndAttachmentsCall

SpecExtract == InitExtract /\ [][NextExtract]_vars

InitScan == ScanInit /\ StoreInit /\ RenderIdle /\ PureIdle

NextScan == AdapterNext \/ CallerAdds

SpecScan == InitScan /\ [][NextScan]_vars

\* saves, some of which fail
NextSaveFails == SaveOps \/ SaveFails

SpecSaveFails == InitStore /\ [][NextSaveFails]_vars

\* saves and lookups
NextLookup == SaveOps \/ ExistsCall \/ GetPathCall

SpecLookup == InitStore /\ [][NextLookup]_vars

\* saves in a store whose files may be removed
NextStoreRemove == SaveOps \/ RemoveFile

SpecStoreRemove == InitStore /\ [][NextStoreRemove]_vars

\* _build_prompt and render_pdf, each called on a message
InitBodies == AdapterIdle /\ StoreInit /\ BodiesInit

NextBodies == BuildPromptCall \/ RenderPdf \/ RenderPdfEngineRaises

SpecBodies == InitBodies /\ [][NextBodies]_vars

\* ================================================================= claims
ConnectionErrors ==
    {"ConnectError", "LoginError", "SelectError", "SearchError", "FetchError"}

Terminated == pc \in {"done", "raised", "closed"}

LogoutCalls == Cardinality({k \in DOMAIN cmds : cmds[k] = "logout"})

\* how often the message at sequence number i was yielded
Yields(i) == Cardinality({k \in DOMAIN yielded : yielded[k].seq = i})

\* the fetch of sequence number i returns a message whose identity can be
\* computed
HasIdentity(i) == mailbox[i].resp = "data" /\ ~GetMessageIdRaises(mailbox[i])

\* C1: fetch_unprocessed never yields a message whose identity, as computed
\* by _get_message_id, is a member of processed_ids.
C1_NeverYieldsProcessed ==
    \A k \in DOMAIN yielded :
        /\ yielded[k].source_id = GetMessageId(mailbox[yielded[k].seq])
        /\ yielded[k].source_id \notin processed_ids

\* a finished scan that met a processed message and an unprocessed one
C1_Witness ==
    /\ pc = "done"
    /\ yielded # <<>>
    /\ \E i \in DOMAIN mailbox :
           HasIdentity(i) /\ GetMessageId(mailbox[i]) \in processed_ids

\* C2 as claimed: in a complete iteration every listed message whose identity
\* is not in processed_ids is yielded exactly once.
C2_EveryUnprocessedYieldedOnce ==
    pc = "done" =>
        \A i \in DOMAIN mailbox :
            (HasIdentity(i) /\ GetMessageId(mailbox[i]) \notin processed_ids)
                => Yields(i) = 1

\* C2 as amended: in a complete iteration every listed message whose fetch
\* returned data and whose identity is not in processed_ids is yielded exactly
\* once if _parse_message succeeds on it and not at all if it raises; no other
\* listed message is yielded.
C2_EveryParsableUnprocessedYieldedOnce ==
    pc = "done" =>
        \A i \in DOMAIN mailbox :
            Yields(i) =
                IF /\ HasIdentity(i)
                   /\ GetMessageId(mailbox[i]) \notin processed_ids
                   /\ ~ParseMessageRaises(mailbox[i])
                THEN 1 ELSE 0

\* a finished scan that yielded two messages and dropped one that did not parse
C2_Witness ==
    /\ pc = "done"
    /\ Len(yielded) >= 2
    /\ \E i \in DOMAIN mailbox :
           /\ HasIdentity(i)
           /\ GetMessageId(mailbox[i]) \notin processed_ids
           /\ ParseMessageRaises(mailbox[i])

\* C3: once fetch_unprocessed holds a connection, logout is called exactly
\* once on every path: it is never called twice, and when the generator has
\* ended (normally, by an exception reaching the caller, or by being closed)
\* it has been called and is the last command issued.
C3_LogoutExactlyOnce ==
    /\ LogoutCalls <= 1
    /\ (Terminated /\ conn) =>
           (LogoutCalls = 1 /\ cmds[Len(cmds)] = "logout")
    /\ (LogoutCalls = 1) => (conn /\ Terminated)

\* an exception raised by a fetch has reached the caller after the logout
C3_Witness ==
    /\ pc = "raised"
    /\ exc = "FetchError"
    /\ yielded # <<>>
    /\ LogoutCalls = 1

\* C4: when a connection-level failure reaches the caller, login failures
\* included, teardown of the connection that was opened has been attempted.
C4_TeardownAfterConnectionFailure ==
    (pc = "raised" /\ exc \in ConnectionErrors /\ sockOpen) => LogoutCalls >= 1

\* C5: a failure while turning one fetched message into a normalized message
\* never aborts the run: only connection-level failures reach the caller.
C5_ParseFailureNeverAborts ==
    pc = "raised" => exc \in ConnectionErrors

\* the (date, vendor, amount) arguments of the i-th save
SaveKey(i) == <<saves[i].date, saves[i].vendor, saves[i].amount>>

\* C6: save never overwrites: the returned paths are pairwise distinct and the
\* file at each returned path holds the bytes of the call that returned it.
C6_NeverOverwrites ==
    /\ \A i, j \in DOMAIN saves : i # j => saves[i].ret # saves[j].ret
    /\ \A i \in DOMAIN saves :
           /\ Resolve(saves[i].ret) \in DOMAIN files
           /\ files[Resolve(saves[i].ret)] = saves[i].data

\* two saves with identical (date, vendor, amount) and different bytes
C6_Witness ==
    \E i, j \in DOMAIN saves :
        i < j /\ SaveKey(i) = SaveKey(j) /\ saves[i].data # saves[j].data

AmazonPath ==
    <<"2", "0", "2", "5", "/", "0", "6", "/", "2", "0", "2", "5", "-", "0",
      "6", "-", "1", "5", "_", "_", "a", "m", "a", "z", "o", "n", "_", "_",
      "4", "2", ".", "9", "9">>

LongPath ==
    <<"2", "0", "2", "5", "/", "0", "6", "/", "2", "0", "2", "5", "-", "0",
      "6", "-", "1", "5", "_", "_", "a", "a", "a", "a", "a", "a", "a", "a",
      "a", "a", "a", "a", "a", "a", "a", "a", "a", "a", "a", "a", "a", "a",
      "a", "a", "a", "a", "a", "a", "a", "a", "a", "a", "a", "a", "a", "a",
      "a", "a", "a", "a", "a", "a", "a", "a", "a", "a", "a", "a", "a", "_",
      "_", "0", ".", "0", "5">>

DotPdf == <<".", "p", "d", "f">>

\* the name without suffix and extension the claim gives for a save
ExpectedStem(s) ==
    Str(s.date.year) \o <<"/">> \o ZeroPad(Str(s.date.month), 2) \o <<"/">>
    \o IsoFormat(s.date) \o <<"_", "_">> \o SlugifyVendor(s.vendor)
    \o <<"_", "_">> \o DecimalStr(s.amount)

\* the i-th save is the n-th with its (date, vendor, amount)
Ordinal(i) == Cardinality({j \in 1..i : SaveKey(j) = SaveKey(i)})

\* no earlier save with other arguments produced the same base name
NoForeignHolder(i) ==
    \A j \in 1..(i - 1) :
        SaveKey(j) # SaveKey(i) => ExpectedStem(saves[j]) # ExpectedStem(saves[i])

\* C7: on an initially empty store the first save of a (date, vendor, amount)
\* returns {year}/{MM}/{ISO date}__{slug}__{amount}.pdf and the n-th save of
\* the identical arguments returns the same name with _n before .pdf; the
\* slug is lowercase, hyphen-delimited and at most 50 characters long.
C7_PathFormat ==
    \A i \in DOMAIN saves :
        LET s    == saves[i]
            slug == SlugifyVendor(s.vendor)
            n    == Ordinal(i)
        IN  /\ Len(slug) <= 50
            /\ \A k \in DOMAIN slug : slug[k] \in SlugAllowed
            /\ slug = <<>> \/ (slug[1] # "-" /\ slug[Len(slug)] # "-")
            /\ SaveKey(i) = <<Date1, VendorAmazon, Amount1>>
                   => ExpectedStem(s) = AmazonPath
            /\ SaveKey(i) = <<Date1, VendorLong, Amount2>>
                   => ExpectedStem(s) = LongPath
            /\ NoForeignHolder(i) =>
                   s.ret = ExpectedStem(s)
                           \o (IF n = 1 THEN <<>> ELSE <<"_">> \o Str(n))
                           \o DotPdf

\* the third save of ("Amazon", 2025-06-15, 42.99) on an empty store
C7_Witness ==
    /\ Len(saves) = 3
    /\ \A i \in DOMAIN saves : SaveKey(i) = <<Date1, VendorAmazon, Amount1>>
    /\ saves[3].ret = AmazonPath \o <<"_", "3">> \o DotPdf

\* C8: whatever the vendor, the returned path has no ".." segment, consists of
\* the year directory, the month directory and a file name, and names a
\* location inside the store root.
C8_PathSafe ==
    \A i \in DOMAIN saves :
        LET segs == Split(saves[i].ret)
        IN  /\ Len(segs) = 3
            /\ \A k \in DOMAIN segs : segs[k] # DotDot /\ segs[k] # <<>>
            /\ segs[1] = Str(saves[i].date.year)
            /\ segs[2] = ZeroPad(Str(saves[i].date.month), 2)
            /\ \A k \in DOMAIN saves[i].ret : saves[i].ret[k] # "\\"
            /\ InsideRoot(Resolve(saves[i].ret))
            /\ Len(Resolve(saves[i].ret)) = 3

\* saves whose vendors carry "..", "/" and "\"
C8_Witness ==
    /\ \E i \in DOMAIN saves : saves[i].vendor = VendorTraversal
    /\ \E i \in DOMAIN saves : saves[i].vendor = VendorBackslash

\* the body is there at all
Present(b) == b # None

\* the indices of the attachments whose content type is application/pdf,
\* whatever the case of its letters
PdfIndices == {i \in DOMAIN raw.attachments :
                  LowerStr(raw.attachments[i].content_type) = AppPdf}

FirstPdfIndex == CHOOSE i \in PdfIndices : \A j \in PdfIndices : i <= j

EscapedTemplate(body) ==
    TextTemplate(HtmlEscape(raw.subject), HtmlEscape(raw.sender),
                 HtmlEscape(raw.date), HtmlEscape(body))

\* the four tiers in order, Has telling whether a body counts as existing
Cascade(Has(_)) ==
    rpc \in {"returned", "raised"} =>
        IF PdfIndices # {}
        THEN /\ rpc = "returned"
             /\ engineInput = None
             /\ result = raw.attachments[FirstPdfIndex].data
        ELSE /\ rpc = "returned" => result = PdfMagic
             /\ engineInput =
                    IF Has(raw.html_body)
                    THEN EmbedInlineImages(raw.html_body, raw.attachments)
                    ELSE IF Has(raw.text_body)
                    THEN EscapedTemplate(raw.text_body)
                    ELSE EscapedTemplate(NoBodyContent)

C10_AlwaysNonEmpty ==
    rpc = "returned" => result # <<>>

\* C10 as amended: render_pdf fails only when the rendering engine raises in
\* tiers 2 to 4, and what it returns is empty exactly when tier 1 passed
\* through a PDF attachment whose data is empty.
C10_NonEmptyUnlessEmptyAttachment ==
    /\ rpc = "raised" => PdfIndices = {}
    /\ rpc = "returned" =>
           (result = <<>> <=>
               (PdfIndices # {} /\ raw.attachments[FirstPdfIndex].data = <<>>))

\* the fallback tier: no attachment, no body, a non-empty document comes back
C10_Witness ==
    /\ rpc = "returned"
    /\ raw.attachments = <<>>
    /\ raw.html_body = None
    /\ raw.text_body = None
    /\ engineInput = EscapedTemplate(NoBodyContent)
    /\ result # <<>>

\* C11: _get_message_id returns the Message-ID header with its surrounding
\* whitespace removed whenever the message has one, and otherwise the
\* SHA-256 digest of "subject|date|sender" built from the raw headers, an
\* absent header counting as empty; a second call returns the same string.
C11_IdentityRule ==
    \A k \in DOMAIN rets :
        /\ rets[k] # AttributeError
        /\ (arg.mid \notin {None, <<>>, HeaderObj}
                => /\ Len(rets[k]) <= Len(arg.mid)
                   /\ (rets[k] # <<>>
                          => /\ Head(rets[k]) # " "
                             /\ rets[k][Len(rets[k])] # " ")
                   /\ \E i \in 0..Len(arg.mid) :
                          /\ rets[k] = SubSeq(arg.mid, i + 1, i + Len(rets[k]))
                          /\ \A j \in (1..i) \cup ((i + Len(rets[k]) + 1)
                                                    ..Len(arg.mid)) :
                                 arg.mid[j] = " ")
        /\ (arg.mid \in {None, <<>>}
                => rets[k] =
                       Sha256((IF arg.subject = None THEN <<>>
                               ELSE arg.subject) \o <<"|">> \o
                              (IF arg.date = None THEN <<>> ELSE arg.date)
                              \o <<"|">> \o
                              (IF arg.sender = None THEN <<>>
                               ELSE arg.sender)))
        /\ rets[k] = rets[1]

\* the message has a Message-ID header _get_message_id can use
HasNativeId(m) == m.mid \notin {None, <<>>, HeaderObj}

HeaderTriple(m) ==
    <<GetOrEmpty(m.subject), GetOrEmpty(m.date), GetOrEmpty(m.sender)>>

\* two messages that differ in their native identifier or, neither having
\* one, in their subject, date and sender
DistinctMessages(a, b) ==
    \/ HasNativeId(a) /\ HasNativeId(b) /\ Strip(a.mid) # Strip(b.mid)
    \/ /\ a.mid \in {None, <<>>}
       /\ b.mid \in {None, <<>>}
       /\ HeaderTriple(a) # HeaderTriple(b)

\* the log holds "already processed" for sequence number j
Skipped(j) == \E k \in DOMAIN log : log[k] = <<"skip", j>>

\* C12: source_id identifies a message within its source: two distinct
\* messages never receive the same source_id, so when the identity of one of
\* them is the only one marked processed the other is never skipped.
C12_SourceIdUnique ==
    \A i, j \in DOMAIN mailbox :
        (/\ mailbox[i].resp = "data"
         /\ mailbox[j].resp = "data"
         /\ DistinctMessages(mailbox[i], mailbox[j])
         /\ processed_ids = {GetMessageId(mailbox[i])})
            => ~Skipped(j)

\* C13: a message whose Date header is present and cannot be parsed, or is
\* absent, is still yielded, with the current time as its date.
C13_UnparsableDateSubstituted ==
    pc = "done" =>
        \A i \in DOMAIN mailbox :
            (/\ HasIdentity(i)
             /\ GetMessageId(mailbox[i]) \notin processed_ids
             /\ mailbox[i].charsetOk
             /\ mailbox[i].date \notin ValidDates)
                => \E k \in DOMAIN yielded :
                       yielded[k].seq = i /\ yielded[k].date = <<"now">>

\* C14: constructing ReceiptMetadata fails, and never clamps or defaults,
\* whenever amount <= 0, confidence < 0.0 or > 1.0, vendor is empty, or a
\* passed currency is not exactly three letters A to Z; otherwise it
\* succeeds, in particular at confidence 0.0 and 1.0, keeps the values as
\* passed, and sets currency to "USD" only when currency was omitted.
C14_ValidationRejects ==
    \A k \in DOMAIN rets :
        LET bad == \/ arg.amount <= 0
                   \/ arg.confidence < 0
                   \/ arg.confidence > 100
                   \/ arg.vendor = <<>>
                   \/ /\ arg.currency # Omitted
                      /\ ~(/\ Len(arg.currency) = 3
                           /\ \A i \in 1..Len(arg.currency) :
                                  arg.currency[i] \in Range(UpperAlpha))
        IN  /\ rets[k].ok = ~bad
            /\ rets[k].ok
                  => /\ rets[k].model.vendor = arg.vendor
                     /\ rets[k].model.amount = arg.amount
                     /\ rets[k].model.confidence = arg.confidence
                     /\ arg.currency # Omitted
                            => rets[k].model.currency = arg.currency
                     /\ arg.currency = Omitted
                            => rets[k].model.currency = <<"U", "S", "D">>
                     /\ rets[k].model.currency = <<"U", "S", "D">>
                            => arg.currency \in {Omitted, <<"U", "S", "D">>}

\* a model built at the upper confidence boundary with the currency omitted
C14_Witness ==
    /\ rets # <<>>
    /\ rets[1].ok
    /\ arg.confidence = 100
    /\ arg.currency = Omitted
    /\ rets[1].model.currency = <<"U", "S", "D">>

\* what the prompt holds after its "--- Email Body ---" line
BodySection(p) ==
    LET m == CHOOSE i \in DOMAIN p : p[i] = "--- Email Body ---"
    IN  SubSeq(p, m + 2, Len(p))

\* the text a reader sees in each HTML body of PromptHtmlBodies
HtmlVisibleText == <<"h">>

AmpEntity == <<"&", "a", "m", "p", ";">>

AmpCharRef == <<"&", "#", "3", "8", ";">>

\* C16: _strip_html_tags preserves named and numeric character references
\* verbatim: for an input containing &amp; or &#38; the output contains the
\* same escape text.
C16_EntityRefsPreserved ==
    \A k \in DOMAIN rets :
        /\ Contains(arg, AmpEntity) => Contains(rets[k], AmpEntity)
        /\ Contains(arg, AmpCharRef) => Contains(rets[k], AmpCharRef)

\* the tokens of the cid: references of s from position i, in order: a
\* reference is "cid:" followed by its longest non-empty run of characters
\* other than blanks, quotes and ">", found scanning left to right
RECURSIVE CidRefs(_, _)
CidRefs(s, i) ==
    IF i > Len(s) THEN <<>>
    ELSE LET n == RunLen(s, i + 4, {" ", "\t", "\n", "\"", "'", ">"}, FALSE,
                         Len(s))
         IN  IF /\ i + 3 <= Len(s)
                /\ SubSeq(s, i, i + 3) = <<"c", "i", "d", ":">>
                /\ n >= 1
             THEN <<SubSeq(s, i + 4, i + 3 + n)>> \o CidRefs(s, i + 4 + n)
             ELSE CidRefs(s, i + 1)

\* attachment a is an image whose filename is the token t
ImageNamed(a, t) ==
    /\ a.filename = t
    /\ Len(a.content_type) >= 6
    /\ SubSeq(a.content_type, 1, 6) = <<"i", "m", "a", "g", "e", "/">>

\* the token t names an image attachment of the call
Resolvable(t) ==
    \E i \in DOMAIN arg.attachments : ImageNamed(arg.attachments[i], t)

\* C17: _embed_inline_images replaces every cid: reference whose token is the
\* filename of an image/* attachment by that attachment's data: URI, so the
\* reference no longer appears; every other cid: reference (no attachment of
\* that name, or only a non-image one) is left unchanged; without image
\* attachments the HTML is returned unchanged.
C17_CidEmbedding ==
    \A k \in DOMAIN rets :
        LET refs == CidRefs(arg.html, 1)
        IN  /\ CidRefs(rets[k], 1) = SelectSeq(refs, LAMBDA t : ~Resolvable(t))
            /\ \A r \in DOMAIN refs :
                   Resolvable(refs[r])
                       => \E i \in DOMAIN arg.attachments :
                              /\ ImageNamed(arg.attachments[i], refs[r])
                              /\ Contains(rets[k],
                                          <<"d", "a", "t", "a", ":">>
                                          \o arg.attachments[i].content_type
                                          \o <<";", "b", "a", "s", "e", "6",
                                               "4", ",">>
                                          \o B64Encode(
                                                 arg.attachments[i].data))
            /\ (\A r \in DOMAIN refs : ~Resolvable(refs[r]))
                   => rets[k] = arg.html

\* a call that replaced the reference to the PNG, passing over the text
\* attachment of the same name, and left the reference to no attachment
C17_Witness ==
    /\ rets # <<>>
    /\ arg.html = <<"c", "i", "d", ":", "l", "\"", "c", "i", "d", ":", "z">>
    /\ arg.attachments = <<AttTxtL, AttPng>>
    /\ rets[1] = <<"d", "a", "t", "a", ":", "i", "m", "a", "g", "e", "/",
                   "p", "n", "g", ";", "b", "a", "s", "e", "6", "4", ",",
                   "A", "w", "=", "=", "\"", "c", "i", "d", ":", "z">>

\* the part is a leaf: it holds data, not parts or a message
IsLeaf(p) == p.holds = "data"

\* the part declares a filename, or its disposition is "attachment"
DeclaredAttachment(p) ==
    \/ p.filename \notin {None, <<>>}
    \/ LowerStr(p.disposition)
           = <<"a", "t", "t", "a", "c", "h", "m", "e", "n", "t">>

\* the leaves of the message that may supply the body of type ct, as
\* positions in traversal order
EligibleLeaves(ct) ==
    {i \in DOMAIN arg.parts :
        /\ IsLeaf(arg.parts[i])
        /\ arg.parts[i].content_type = ct
        /\ arg.is_multipart => ~DeclaredAttachment(arg.parts[i])}

\* the decoded payload of the first leaf of E, None when E is empty
FirstBody(E) ==
    IF E = {} THEN None
    ELSE Decode(arg.parts[CHOOSE i \in E : \A q \in E : i <= q].payload)

TextTypes ==
    {<<"t", "e", "x", "t", "/", "h", "t", "m", "l">>,
     <<"t", "e", "x", "t", "/", "p", "l", "a", "i", "n">>}

\* C18: the normalized message keeps at most one HTML body and one text
\* body, each the first eligible leaf of its type in traversal order; a later
\* text/html (text/plain) leaf neither replaces it, nor is appended to it,
\* nor is added to the attachments.
C18_FirstBodyWins ==
    \A k \in DOMAIN rets :
        /\ rets[k].html_body
               = FirstBody(EligibleLeaves(<<"t", "e", "x", "t", "/", "h",
                                            "t", "m", "l">>))
        /\ rets[k].text_body
               = FirstBody(EligibleLeaves(<<"t", "e", "x", "t", "/", "p",
                                            "l", "a", "i", "n">>))
        /\ Cardinality({j \in DOMAIN rets[k].attachments :
                           rets[k].attachments[j].content_type \in TextTypes})
               = Cardinality({i \in DOMAIN arg.parts :
                                 /\ arg.is_multipart
                                 /\ IsLeaf(arg.parts[i])
                                 /\ arg.parts[i].content_type \in TextTypes
                                 /\ DeclaredAttachment(arg.parts[i])})

\* a tree whose first and last parts are different HTML leaves
C18_Witness ==
    /\ rets # <<>>
    /\ arg.is_multipart
    /\ Len(arg.parts) >= 2
    /\ arg.parts[1] = PartHtml1
    /\ arg.parts[Len(arg.parts)] = PartHtml2
    /\ rets[1].html_body = <<"h", "1">>
    /\ rets[1].attachments = <<>>

\* the attachment the claim describes for an appended part
ExpectedAttachment(p) ==
    [filename     |-> IF p.filename \notin {None, <<>>} THEN p.filename
                      ELSE IF DeclaredAttachment(p)
                      THEN <<"u", "n", "n", "a", "m", "e", "d">>
                      ELSE IF p.content_id = <<>>
                      THEN <<"i", "n", "l", "i", "n", "e", "-", "i", "m",
                             "a", "g", "e">>
                      ELSE SubSeq(p.content_id, 2, Len(p.content_id) - 1),
     content_type |-> p.content_type,
     data         |-> p.payload]

\* the part is appended to the attachments: a declared attachment, or an
\* image/* leaf that is none
Appended(p) ==
    /\ IsLeaf(p)
    /\ \/ DeclaredAttachment(p)
       \/ /\ Len(p.content_type) >= 6
          /\ SubSeq(p.content_type, 1, 6) = <<"i", "m", "a", "g", "e", "/">>

ListPos(n) == CHOOSE p \in DOMAIN msg_ids : msg_ids[p] = n

\* C20: fetch_unprocessed yields in listing order: of two yielded messages
\* the one that stands earlier in the list returned by the search is yielded
\* first.
C20_YieldsInListingOrder ==
    \A k, l \in DOMAIN yielded :
        k < l => ListPos(yielded[k].seq) < ListPos(yielded[l].seq)

\* a finished scan that yielded two messages with a listed message between
\* them that was not yielded
C20_Witness ==
    /\ pc = "done"
    /\ \E k \in DOMAIN yielded :
           /\ k + 1 \in DOMAIN yielded
           /\ ListPos(yielded[k].seq) + 1 < ListPos(yielded[k + 1].seq)

\* what conn.fetch returned holds no message: the empty list, [None], or a
\* list whose first element is not a tuple
NoData(m) == m.resp = "empty" \/ m.resp = "none" \/ m.resp = "bytes"

\* C21: when the fetch of a sequence identifier returns (does not raise) and
\* what it returns is the empty list, [None], or a list whose first element
\* is not a tuple, the generator does not raise, yields nothing for that
\* identifier and goes on to the next one.
C21_NoDataSkipped ==
    [][(InLoop /\ NoData(Current) /\ cmds' # cmds /\ pc' # "finally")
       => /\ pc' = "loop"
          /\ idx' = idx + 1
          /\ yielded' = yielded
          /\ exc' = "none"]_vars

\* each of the three shapes was skipped and the scan ran to its end
C21_Witness ==
    /\ pc = "done"
    /\ Len(mailbox) = 3
    /\ mailbox[1].resp = "empty"
    /\ mailbox[2].resp = "none"
    /\ mailbox[3].resp = "bytes"
    /\ idx = 4
    /\ yielded = <<>>
    /\ exc = "none"

\* C22: a save that fails raises to its caller and leaves no partial file:
\* the path it aimed at either holds the complete bytes or does not exist.
C22_NoPartialFile ==
    \A i \in DOMAIN failed :
        LET f == failed[i]
        IN  \/ f.target = None
            \/ Resolve(f.target) \notin DOMAIN files
            \/ files[Resolve(f.target)] = f.data

\* what fetch_unprocessed itself holds and does: its position, its locals,
\* what it sent, yielded, raised and logged
GeneratorState ==
    <<pc, conn, sockOpen, msg_ids, idx, yielded, exc, cmds, log>>

\* C23: fetch_unprocessed never adds to or removes from processed_ids: no
\* step of the generator, in a partial or a complete iteration, changes the
\* set; it changes only while the generator stands still, by its caller.
C23_ProcessedIdsUntouched ==
    [][GeneratorState' # GeneratorState => processed_ids' = processed_ids]_vars

\* a complete scan that skipped one message for its identity and yielded
\* another
C23_Witness ==
    /\ pc = "done"
    /\ yielded # <<>>
    /\ \E k \in DOMAIN log : log[k][1] = "skip"
    /\ \A r \in Range(yielded) : r.source_id \notin processed_ids

\* the call that has just returned
LastCall == rets'[Len(rets')]

\* the paths the saves so far returned
Returned == {saves[i].ret : i \in DOMAIN saves}

\* C24: exists and get_path change nothing in the store; get_path(p) is p,
\* as it was passed, below the root; after any sequence of saves exists(p)
\* is true for every path a save returned and false for every other path.
C24_PureLookups ==
    [][rets' # rets =>
        /\ UNCHANGED <<files, dirs, saves>>
        /\ LastCall.op = "get_path" =>
               /\ LastCall.ret.underRoot
               /\ LastCall.ret.segments = Split(LastCall.path)
        /\ LastCall.op = "exists" =>
               (LastCall.ret <=> LastCall.path \in Returned)]_vars

\* the commands sent before any logout
BeforeLogout ==
    IF cmds # <<>> /\ cmds[Len(cmds)] = "logout"
    THEN SubSeq(cmds, 1, Len(cmds) - 1)
    ELSE cmds

\* what an invocation sends before its first fetch
Preamble ==
    <<"connect", "login", "select(folder, readonly=True)", "search">>

\* C25: an invocation sends one connect, one login, one read-only select of
\* the folder and one listing, in this order, and only then fetches, one for
\* each message it reaches; no other command is sent, nothing follows the
\* logout, and an invocation that yields or ends without an exception has
\* sent all four.
C25_CommandOrder ==
    /\ \A k \in DOMAIN BeforeLogout :
           BeforeLogout[k] =
               IF k <= Len(Preamble) THEN Preamble[k] ELSE "fetch"
    /\ pc \in {"loop", "suspended", "done", "closed"} =>
           Len(BeforeLogout) >= Len(Preamble)
    /\ pc \in {"loop", "suspended"} =>
           Len(BeforeLogout) =
               Len(Preamble) + (IF pc = "loop" THEN idx - 1 ELSE idx)

\* a complete scan of two messages
C25_Witness ==
    /\ pc = "done"
    /\ cmds = Preamble \o <<"fetch", "fetch", "logout">>
    /\ Len(yielded) = 2

\* conn.logout() raised
LogoutFailed == \E k \in DOMAIN log : log[k][1] = "logouterr"

\* C26: an exception raised by logout is not propagated: the generator ends
\* as it would have ended had logout returned, normally after a scan that
\* completed, closed after a close, and with the exception the scan failed
\* with when it failed.
C26_LogoutFailureSwallowed ==
    [][(pc = "finally" /\ pc' # "finally" /\ log' # log) =>
          /\ exc' = exc
          /\ pc' = (IF exc = "none" THEN "done"
                    ELSE IF exc = "GeneratorExit" THEN "closed"
                    ELSE "raised")]_vars

\* a fetch raised, logout raised as well, and the caller has the fetch error
C26_Witness ==
    /\ pc = "raised"
    /\ exc = "FetchError"
    /\ LogoutFailed

FetchCalls == Cardinality({k \in DOMAIN cmds : cmds[k] = "fetch"})

\* C27: when the consumer closes the generator at a yield, logout is called
\* exactly once and is the last command, no fetch is sent for the sequence
\* identifiers after the one that was yielded, and the close is not taken for
\* a parse failure: nothing is logged for it and the generator ends closed.
C27_CloseTearsDown ==
    pc = "closed" =>
        /\ exc = "GeneratorExit"
        /\ LogoutCalls = 1
        /\ cmds[Len(cmds)] = "logout"
        /\ idx \in DOMAIN msg_ids
        /\ FetchCalls = idx
        /\ yielded # <<>>
        /\ yielded[Len(yielded)].seq = msg_ids[idx]
        /\ \A k \in DOMAIN log : log[k] # <<"parsefail", msg_ids[idx]>>

\* closed at the first of three messages
C27_Witness ==
    /\ pc = "closed"
    /\ Len(msg_ids) = 3
    /\ idx = 1
    /\ Len(yielded) = 1

\* the generator has fetched the message it stands at and has an identity
\* for it
ReachedWithIdentity ==
    /\ InLoop
    /\ HasIdentity(CurrentSeq)
    /\ cmds' = Append(cmds, "fetch")
    /\ pc' # "finally"

\* C28: a message's identity is tested against processed_ids as the set is
\* when the scan reaches that message: if the identity is in the set then,
\* whether it was there at the start or the caller added it between two
\* yields, the message is not yielded; if it is not, the message is yielded
\* (provided it parses) even when a message with the same identity was
\* yielded before.
C28_TestedWhenReached ==
    [][ReachedWithIdentity =>
          IF GetMessageId(Current) \in processed_ids
          THEN yielded' = yielded /\ pc' = "loop" /\ idx' = idx + 1
          ELSE IF ParseMessageRaises(Current)
          THEN yielded' = yielded /\ pc' = "loop" /\ idx' = idx + 1
          ELSE /\ Len(yielded') = Len(yielded) + 1
               /\ SubSeq(yielded', 1, Len(yielded)) = yielded
               /\ yielded'[Len(yielded')].seq = CurrentSeq
               /\ yielded'[Len(yielded')].source_id = GetMessageId(Current)
               /\ pc' = "suspended"]_vars

\* three messages with one identity: the caller added nothing after the
\* first, which let the second through, and added the identity after the
\* second, which suppressed the third
C28_Witness ==
    /\ pc = "done"
    /\ Len(mailbox) = 3
    /\ \A i \in DOMAIN mailbox : GetMessageId(mailbox[i]) = <<"a">>
    /\ Len(yielded) = 2
    /\ yielded[1].seq = 1
    /\ yielded[2].seq = 2
    /\ <<"a">> \in processed_ids
    /\ \E k \in DOMAIN log : log[k] = <<"skip", 3>>

\* the save that has just returned
LastSave == saves'[Len(saves')]

\* the k-th name of the save that has just returned: un-suffixed for k = 1
NameOf(k) ==
    DirPath(LastSave.date) \o <<"/">>
    \o Filename(IsoFormat(LastSave.date), SlugifyVendor(LastSave.vendor),
                DecimalStr(LastSave.amount), k)

\* something stood at the path when save was called
Held(path) == Resolve(path) \in DOMAIN files \/ Resolve(path) \in dirs

\* C29: save returns the un-suffixed name when nothing holds it, and else
\* the _k name with the least k >= 2 that nothing holds, whoever wrote the
\* files that hold the others and whatever was returned before.
C29_LeastFreeName ==
    [][Len(saves') > Len(saves) =>
          \E k \in 1..(Len(saves) + 2) :
              /\ LastSave.ret = NameOf(k)
              /\ ~Held(NameOf(k))
              /\ \A j \in 1..(k - 1) : Held(NameOf(j))]_vars

\* a path is returned twice, for different bytes, after its file was
\* removed; then the vendor with the same slug finds the name held and gets
\* the suffix _2
C29_Witness ==
    /\ Len(saves) = 3
    /\ saves[1].ret = BasePath(Date1, VendorAmazon, Amount1)
    /\ saves[2].ret = saves[1].ret
    /\ saves[2].data # saves[1].data
    /\ saves[3].vendor # saves[2].vendor
    /\ saves[3].ret =
           DirPath(Date1) \o <<"/">>
           \o Filename(IsoFormat(Date1), SlugifyVendor(saves[3].vendor),
                       DecimalStr(Amount1), 2)
    /\ files[Resolve(saves[2].ret)] = saves[2].data

\* the body is absent or the empty string
Empty(b) == b = None \/ b = <<>>

\* C30: the prompt builder and the renderer treat a body that is the empty
\* string as they treat an absent one: with an empty text body and a
\* non-empty HTML body the prompt carries the stripped HTML; with an empty
\* HTML body, a non-empty text body and no PDF attachment render_pdf renders
\* the text template around the text body; with both bodies empty each uses
\* "(no body content)".
C30_EmptyLikeAbsent ==
    /\ \A k \in DOMAIN rets :
           LET body == BodySection(rets[k])
           IN  /\ (Empty(arg.text_body) /\ ~Empty(arg.html_body))
                      => /\ body = StripHtmlTags(arg.html_body)
                         /\ Contains(body, HtmlVisibleText)
                         /\ body # PromptNoBody
               /\ (Empty(arg.text_body) /\ Empty(arg.html_body))
                      => body = PromptNoBody
    /\ (rpc \in {"returned", "raised"} /\ PdfIndices = {}) =>
           /\ (Empty(raw.html_body) /\ ~Empty(raw.text_body))
                  => engineInput = EscapedTemplate(raw.text_body)
           /\ (Empty(raw.html_body) /\ Empty(raw.text_body))
                  => engineInput = EscapedTemplate(NoBodyContent)

\* a prompt built from an empty text body and an HTML body, and a document
\* rendered from an empty HTML body and a text body
C30_Witness ==
    /\ rets # <<>>
    /\ arg.text_body = <<>>
    /\ ~Empty(arg.html_body)
    /\ rpc = "returned"
    /\ raw.attachments = <<>>
    /\ raw.html_body = <<>>
    /\ raw.text_body = TextBody
    /\ engineInput = EscapedTemplate(TextBody)

====
